---- MODULE Spec2Model ----
(***************************************************************************)
(* Schema compilation of the Cedar policy validator                        *)
(* (cedar-policy-validator/src/schema.rs).                                 *)
(*                                                                         *)
(* Strings that the code parses as names ("Foo::Bar") are sequences of     *)
(* their "::"-separated segments (<<"Foo", "Bar">>); a segment that is not *)
(* an identifier is the empty segment "".  A Name is the parsed form       *)
(* [path, id]; to_string turns it back into the segment sequence.          *)
(* A Result is Ok(v) or Fail(errs), errs being the errors the call can     *)
(* return: a HashMap is iterated in an unspecified order, so when several  *)
(* entries of one loop fail, either error can be the one returned.         *)
(***************************************************************************)
EXTENDS Naturals, Sequences, FiniteSets, TLC

VARIABLES
    entry,                      \* input: "fragments", or "definition" for a single
                                \* NamespaceDefinition, held as fragment 1 under ""
    fragments,                  \* input: the SchemaFragments handed to the compiler
    action_behavior,            \* input: the ActionBehavior
    pc,                         \* step the compilation is at, or stopped at
    next_fragment,              \* index of the next fragment to convert
    ns_defs,                    \* ValidatorNamespaceDefs not merged yet (flattened)
    type_defs,                  \* from_schema_fragments: merged common types
    entity_attributes,          \* from_schema_fragments: merged entity shapes
    entity_children,            \* from_schema_fragments: merged memberOfTypes inversion
    action_context_applies_to,  \* from_schema_fragments: merged contexts and apply specs
    action_children,            \* from_schema_fragments: merged memberOf inversion
    action_attributes,          \* from_schema_fragments: merged action attributes
    entity_types,               \* from_schema_fragments: Name -> ValidatorEntityType
    action_ids,                 \* from_schema_fragments: EntityUID -> ValidatorActionId
    result                      \* Pending, Ok(ValidatorSchema) or Err(SchemaError)

vars == <<entry, fragments, action_behavior, pc, next_fragment, ns_defs, type_defs,
          entity_attributes, entity_children, action_context_applies_to,
          action_children, action_attributes, entity_types, action_ids, result>>

(***************************************************************************)
(* Bounds of the model.                                                    *)
(***************************************************************************)
\* largest memberOfTypes / memberOf list of a declaration
MaxParents == 2
\* deepest nesting of a schema type inside an attribute
MaxDepth == 1
\* deepest nesting of a value inside an action attribute
MaxJsonDepth == 2

(***************************************************************************)
(* Option, Result and SchemaError values.                                  *)
(***************************************************************************)
None == [some |-> FALSE]
Some(v) == [some |-> TRUE, val |-> v]

Ok(v) == [ok |-> TRUE, val |-> v]
Fail(errs) == [ok |-> FALSE, errs |-> errs]

\* A SchemaError: its variant and the strings it carries.
Err(kind, info) == [kind |-> kind, info |-> info]

EmptyMap == <<>>

\* The errors of the failed results among rs.
ErrsOf(rs) == UNION {r.errs : r \in {q \in rs : ~q.ok}}

(***************************************************************************)
(* Name machinery.                                                         *)
(***************************************************************************)
ACTION_ENTITY_TYPE == "Action"

IsIdent(seg) == seg # ""

Name(id, path) == [path |-> path, id |-> id]

\* Name::to_string: the path and the basename joined by "::".
NameToString(n) == Append(n.path, n.id)

\* EntityUID::to_string: Type::"eid".
EuidToString(e) == Append(NameToString(e.ty), e.eid)

\* parse_name: A::B::C; no empty segment, no leading or trailing "::".
parse_name(s) ==
    IF Len(s) >= 1 /\ \A i \in 1..Len(s) : IsIdent(s[i])
    THEN Ok(Name(s[Len(s)], SubSeq(s, 1, Len(s) - 1)))
    ELSE Fail({"parse"})

\* parse_namespace: the Ids of a namespace string; the empty string is the
\* root namespace.
parse_namespace(s) ==
    IF \A i \in 1..Len(s) : IsIdent(s[i]) THEN Ok(s) ELSE Fail({"parse"})

\* str::parse::<Id>: one identifier, no "::".
parse_id(s) ==
    IF Len(s) = 1 /\ IsIdent(s[1]) THEN Ok(s[1]) ELSE Fail({"parse"})

is_action_entity_type(ty) == ty.id = ACTION_ENTITY_TYPE

\* parse_possibly_qualified_name_with_default_namespace that puts every name
\* in a non-empty default namespace, qualified or not.
parse_possibly_qualified_name_with_default_namespace_Always(name_str, default_namespace) ==
    LET name == parse_name(name_str) IN
    IF ~name.ok THEN name
    ELSE IF default_namespace # <<>>
         THEN Ok(Name(name.val.id, default_namespace))
         ELSE Ok(name.val)

parse_possibly_qualified_name_with_default_namespace(name_str, default_namespace) ==
    LET name == parse_name(name_str) IN
    IF ~name.ok THEN name
    ELSE IF name.val.path = <<>> /\ default_namespace # <<>>
         THEN Ok(Name(name.val.id, default_namespace))
         ELSE Ok(name.val)

parse_unqualified_name_with_namespace(type_name, namespace) ==
    LET id == parse_id(type_name) IN
    IF id.ok THEN Ok(Name(id.val, namespace)) ELSE id

\* ActionEntityUID::default_type: an action reference without a type.
default_type(id) == [id |-> id, ty |-> None]

EntityUID(ty, eid) == [ty |-> ty, eid |-> eid]

\* parse_action_id_with_namespace that puts an explicit type without a
\* namespace in the enclosing namespace.
parse_action_id_with_namespace_Qualifying(action_id, namespace) ==
    IF action_id.ty.some
    THEN LET action_ty == parse_possibly_qualified_name_with_default_namespace(
                              action_id.ty.val, namespace) IN
         IF action_ty.ok
         THEN Ok(EntityUID(action_ty.val, action_id.id))
         ELSE Fail({Err("EntityTypeParseError", {action_id.ty.val})})
    ELSE Ok(EntityUID(Name(ACTION_ENTITY_TYPE, namespace), action_id.id))

\* parse_action_id_with_namespace that takes the namespace of an explicit
\* type and puts the action type of that namespace in its place.
parse_action_id_with_namespace_ActionType(action_id, namespace) ==
    IF action_id.ty.some
    THEN LET action_ty == parse_name(action_id.ty.val) IN
         IF action_ty.ok
         THEN Ok(EntityUID(Name(ACTION_ENTITY_TYPE, action_ty.val.path), action_id.id))
         ELSE Fail({Err("EntityTypeParseError", {action_id.ty.val})})
    ELSE Ok(EntityUID(Name(ACTION_ENTITY_TYPE, namespace), action_id.id))

parse_action_id_with_namespace(action_id, namespace) ==
    IF action_id.ty.some
    THEN LET action_ty == parse_name(action_id.ty.val) IN
         IF action_ty.ok
         THEN Ok(EntityUID(action_ty.val, action_id.id))
         ELSE Fail({Err("EntityTypeParseError", {action_id.ty.val})})
    ELSE Ok(EntityUID(Name(ACTION_ENTITY_TYPE, namespace), action_id.id))

(***************************************************************************)
(* Types.  A Type is [tag |-> "Bool" | "Long" | "String"],                 *)
(* [tag |-> "Set", elem], [tag |-> "Record", attrs], [tag |-> "Entity",    *)
(* lub] or [tag |-> "Extension", name]; attrs maps an attribute name to    *)
(* [attr_type, is_required].  A WithUnresolvedTypeDefs<Type> is a Type     *)
(* that may hold [tag |-> "TypeDef", name, type_name] nodes, which         *)
(* resolve_type_defs replaces by the common type of that name.             *)
(***************************************************************************)
SCHEMA_TYPE_VARIANT_TAGS ==
    {"String", "Long", "Boolean", "Set", "Record", "Entity", "Extension"}

AttributeType(ty, req) == [attr_type |-> ty, is_required |-> req]

RECURSIVE try_schema_type_into_validator_type(_, _)
try_schema_type_into_validator_type(default_namespace, schema_ty) ==
    CASE schema_ty.type = "String" -> Ok([tag |-> "String"])
      [] schema_ty.type = "Long" -> Ok([tag |-> "Long"])
      [] schema_ty.type = "Boolean" -> Ok([tag |-> "Bool"])
      [] schema_ty.type = "Set" ->
            LET e == try_schema_type_into_validator_type(default_namespace,
                                                         schema_ty.element) IN
            IF e.ok THEN Ok([tag |-> "Set", elem |-> e.val]) ELSE e
      [] schema_ty.type = "Record" ->
            IF schema_ty.additionalAttributes
            THEN Fail({Err("UnsupportedSchemaFeature", {<<"OpenRecordsAndEntities">>})})
            ELSE \* parse_record_attributes
                 LET attrs == schema_ty.attributes
                     conv == [a \in DOMAIN attrs |->
                                try_schema_type_into_validator_type(
                                    default_namespace, attrs[a].ty)] IN
                 IF \A a \in DOMAIN attrs : conv[a].ok
                 THEN Ok([tag |-> "Record",
                          attrs |-> [a \in DOMAIN attrs |->
                                       AttributeType(conv[a].val, attrs[a].required)]])
                 ELSE Fail(ErrsOf({conv[a] : a \in DOMAIN attrs}))
      [] schema_ty.type = "Entity" ->
            LET n == parse_possibly_qualified_name_with_default_namespace(
                         schema_ty.name, default_namespace) IN
            IF n.ok THEN Ok([tag |-> "Entity", lub |-> {n.val}])
            ELSE Fail({Err("EntityTypeParseError", {schema_ty.name})})
      [] schema_ty.type = "Extension" ->
            LET n == parse_name(schema_ty.name) IN
            IF n.ok THEN Ok([tag |-> "Extension", name |-> n.val])
            ELSE Fail({Err("ExtensionTypeParseError", {schema_ty.name})})
      [] schema_ty.type = "TypeDef" ->
            LET n == parse_possibly_qualified_name_with_default_namespace(
                         schema_ty.type_name, default_namespace) IN
            IF n.ok THEN Ok([tag |-> "TypeDef", name |-> n.val,
                             type_name |-> schema_ty.type_name])
            ELSE Fail({Err("CommonTypeParseError", {schema_ty.type_name})})

\* resolve_type_defs that replaces a reference only when the type itself is
\* the reference, not inside a set or a record.
resolve_type_defs_Shallow(ty, typ_defs) ==
    IF ty.tag = "TypeDef"
    THEN IF ty.name \in DOMAIN typ_defs THEN Ok(typ_defs[ty.name])
         ELSE Fail({Err("UndeclaredCommonType", {ty.type_name})})
    ELSE Ok(ty)

RECURSIVE resolve_type_defs(_, _)
resolve_type_defs(ty, typ_defs) ==
    CASE ty.tag = "TypeDef" ->
            IF ty.name \in DOMAIN typ_defs THEN Ok(typ_defs[ty.name])
            ELSE Fail({Err("UndeclaredCommonType", {ty.type_name})})
      [] ty.tag = "Set" ->
            LET e == resolve_type_defs(ty.elem, typ_defs) IN
            IF e.ok THEN Ok([tag |-> "Set", elem |-> e.val]) ELSE e
      [] ty.tag = "Record" ->
            LET res == [a \in DOMAIN ty.attrs |->
                          resolve_type_defs(ty.attrs[a].attr_type, typ_defs)] IN
            IF \A a \in DOMAIN ty.attrs : res[a].ok
            THEN Ok([tag |-> "Record",
                     attrs |-> [a \in DOMAIN ty.attrs |->
                                  AttributeType(res[a].val, ty.attrs[a].is_required)]])
            ELSE Fail(ErrsOf({res[a] : a \in DOMAIN ty.attrs}))
      [] OTHER -> Ok(ty)

(***************************************************************************)
(* Conversion of one NamespaceDefinition (ValidatorNamespaceDef).          *)
(* A NamespaceDefinition is [common_types, entity_types, actions]:         *)
(*   common_types : alias string -> SchemaType                             *)
(*   entity_types : name string -> [member_of_types, shape]                *)
(*   actions      : id -> [attributes, applies_to, member_of]              *)
(* The maps are HashMaps, so a key occurs once: the duplicate checks that  *)
(* open from_namespace_definition never fail.                              *)
(***************************************************************************)
\* is_builtin_type_name that takes no name for a builtin one.
is_builtin_type_name_Never(name) == FALSE

is_builtin_type_name(name) ==
    \E type_name \in SCHEMA_TYPE_VARIANT_TAGS : name = <<type_name>>

\* build_type_defs that keeps the body of an alias as converted, without
\* resolving the references it holds.
build_type_defs_Unresolved(schema_file_type_def, schema_namespace) ==
    LET conv(name_str) ==
            IF is_builtin_type_name(name_str)
            THEN Fail({Err("DuplicateCommonType", {name_str})})
            ELSE LET name == parse_unqualified_name_with_namespace(
                                 name_str, schema_namespace) IN
                 IF ~name.ok THEN Fail({Err("CommonTypeParseError", {name_str})})
                 ELSE LET d == try_schema_type_into_validator_type(
                                   schema_namespace, schema_file_type_def[name_str]) IN
                      IF ~d.ok THEN d
                      ELSE Ok([name |-> name.val, ty |-> d.val])
        rs == [s \in DOMAIN schema_file_type_def |-> conv(s)]
        names == {rs[s].val.name : s \in DOMAIN rs}
    IN  IF \A s \in DOMAIN rs : rs[s].ok
        THEN Ok([n \in names |->
                   rs[CHOOSE s \in DOMAIN rs : rs[s].val.name = n].val.ty])
        ELSE Fail(ErrsOf({rs[s] : s \in DOMAIN rs}))

\* build_type_defs that converts the body of an alias without a default
\* namespace.
build_type_defs_RootBodies(schema_file_type_def, schema_namespace) ==
    LET conv(name_str) ==
            IF is_builtin_type_name(name_str)
            THEN Fail({Err("DuplicateCommonType", {name_str})})
            ELSE LET name == parse_unqualified_name_with_namespace(
                                 name_str, schema_namespace) IN
                 IF ~name.ok THEN Fail({Err("CommonTypeParseError", {name_str})})
                 ELSE LET d == try_schema_type_into_validator_type(
                                   <<>>, schema_file_type_def[name_str]) IN
                      IF ~d.ok THEN d
                      ELSE LET ty == resolve_type_defs(d.val, EmptyMap) IN
                           IF ~ty.ok THEN ty
                           ELSE Ok([name |-> name.val, ty |-> ty.val])
        rs == [s \in DOMAIN schema_file_type_def |-> conv(s)]
        names == {rs[s].val.name : s \in DOMAIN rs}
    IN  IF \A s \in DOMAIN rs : rs[s].ok
        THEN Ok([n \in names |->
                   rs[CHOOSE s \in DOMAIN rs : rs[s].val.name = n].val.ty])
        ELSE Fail(ErrsOf({rs[s] : s \in DOMAIN rs}))

build_type_defs(schema_file_type_def, schema_namespace) ==
    LET conv(name_str) ==
            IF is_builtin_type_name(name_str)
            THEN Fail({Err("DuplicateCommonType", {name_str})})
            ELSE LET name == parse_unqualified_name_with_namespace(
                                 name_str, schema_namespace) IN
                 IF ~name.ok THEN Fail({Err("CommonTypeParseError", {name_str})})
                 ELSE LET d == try_schema_type_into_validator_type(
                                   schema_namespace, schema_file_type_def[name_str]) IN
                      IF ~d.ok THEN d
                      ELSE LET ty == resolve_type_defs(d.val, EmptyMap) IN
                           IF ~ty.ok THEN ty
                           ELSE Ok([name |-> name.val, ty |-> ty.val])
        rs == [s \in DOMAIN schema_file_type_def |-> conv(s)]
        names == {rs[s].val.name : s \in DOMAIN rs}
    IN  IF \A s \in DOMAIN rs : rs[s].ok
        THEN Ok([n \in names |->
                   rs[CHOOSE s \in DOMAIN rs : rs[s].val.name = n].val.ty])
        ELSE Fail(ErrsOf({rs[s] : s \in DOMAIN rs}))

build_entity_types(schema_files_types, schema_namespace) ==
    LET \* Invert the member_of relationship.
        pairs == {<<name, parent>> \in
                     (DOMAIN schema_files_types) \X
                     UNION {schema_files_types[n].member_of_types :
                              n \in DOMAIN schema_files_types} :
                     parent \in schema_files_types[name].member_of_types}
        edge(p) ==
            LET parent_type_name ==
                    parse_possibly_qualified_name_with_default_namespace(
                        p[2], schema_namespace)
                child == parse_unqualified_name_with_namespace(p[1], schema_namespace)
            IN  IF ~parent_type_name.ok
                THEN Fail({Err("EntityTypeParseError", {p[2]})})
                ELSE IF ~child.ok
                     THEN Fail({Err("EntityTypeParseError", {p[1]})})
                     ELSE Ok([parent |-> parent_type_name.val, child |-> child.val])
        edges == {edge(p) : p \in pairs}
        children == [k \in {e.val.parent : e \in edges} |->
                       {e.val.child : e \in {x \in edges : x.val.parent = k}}]
        attr(name_str) ==
            LET name == parse_unqualified_name_with_namespace(name_str, schema_namespace)
            IN  IF ~name.ok THEN Fail({Err("EntityTypeParseError", {name_str})})
                ELSE LET attributes == try_schema_type_into_validator_type(
                                 schema_namespace, schema_files_types[name_str].shape)
                     IN  IF ~attributes.ok THEN attributes
                         ELSE Ok([name |-> name.val, attributes |-> attributes.val])
        rs == {attr(s) : s \in DOMAIN schema_files_types}
    IN  IF \E e \in edges : ~e.ok THEN Fail(ErrsOf(edges))
        ELSE IF \E r \in rs : ~r.ok THEN Fail(ErrsOf(rs))
        ELSE Ok([attributes |-> [n \in {r.val.name : r \in rs} |->
                                   (CHOOSE r \in rs : r.val.name = n).val.attributes],
                 children |-> children])

\* Attributes::with_required_attributes: every attribute required.
with_required_attributes(required_attrs) ==
    [k \in DOMAIN required_attrs |-> AttributeType(required_attrs[k], TRUE)]

\* A JSONValue is [j |-> "Bool" | "Long" | "String"], [j |-> "Record", fields],
\* [j |-> "Set", elems] or another variant (an entity or extension escape).
RECURSIVE jsonval_to_type_helper(_)
jsonval_to_type_helper(v) ==
    CASE v.j = "Bool" -> Ok([tag |-> "Bool"])
      [] v.j = "Long" -> Ok([tag |-> "Long"])
      [] v.j = "String" -> Ok([tag |-> "String"])
      [] v.j = "Record" ->
            LET ts == [k \in DOMAIN v.fields |-> jsonval_to_type_helper(v.fields[k])] IN
            IF \A k \in DOMAIN ts : ts[k].ok
            THEN Ok([tag |-> "Record",
                     attrs |-> with_required_attributes(
                                   [k \in DOMAIN ts |-> ts[k].val])])
            ELSE Fail(ErrsOf({ts[k] : k \in DOMAIN ts}))
      [] v.j = "Set" ->
            IF Len(v.elems) = 0
            THEN Fail({Err("ActionEntityAttributeEmptySet", {})})
            ELSE LET element_type == jsonval_to_type_helper(v.elems[1]) IN
                 IF element_type.ok
                 THEN Ok([tag |-> "Set", elem |-> element_type.val])
                 ELSE element_type
      [] OTHER -> Fail({Err("ActionEntityAttributeUnsupportedType", {})})

\* convert_attr_jsonval_map_to_attributes that leaves out the values it
\* cannot type.
convert_attr_jsonval_map_to_attributes_SkipFailed(m) ==
    LET ts == [k \in DOMAIN m |-> jsonval_to_type_helper(m[k])] IN
    Ok(with_required_attributes([k \in {x \in DOMAIN ts : ts[x].ok} |-> ts[k].val]))

convert_attr_jsonval_map_to_attributes(m) ==
    LET ts == [k \in DOMAIN m |-> jsonval_to_type_helper(m[k])] IN
    IF \A k \in DOMAIN ts : ts[k].ok
    THEN Ok(with_required_attributes([k \in DOMAIN ts |-> ts[k].val]))
    ELSE Fail(ErrsOf({ts[k] : k \in DOMAIN ts}))

Concrete(name) == [kind |-> "Concrete", name |-> name]
Unspecified == [kind |-> "Unspecified"]

\* parse_apply_spec_type_list that takes an omitted list for an empty one.
parse_apply_spec_type_list_OmittedEmpty(types, namespace) ==
    IF ~types.some THEN Ok({})
    ELSE LET rs == [ty_str \in types.val |->
                      parse_possibly_qualified_name_with_default_namespace(
                          ty_str, namespace)] IN
         IF \A s \in types.val : rs[s].ok
         THEN Ok({Concrete(rs[s].val) : s \in types.val})
         ELSE Fail({Err("EntityTypeParseError", {s}) :
                      s \in {x \in types.val : ~rs[x].ok}})

parse_apply_spec_type_list(types, namespace) ==
    IF ~types.some THEN Ok({Unspecified})
    ELSE LET rs == [ty_str \in types.val |->
                      parse_possibly_qualified_name_with_default_namespace(
                          ty_str, namespace)] IN
         IF \A s \in types.val : rs[s].ok
         THEN Ok({Concrete(rs[s].val) : s \in types.val})
         ELSE Fail({Err("EntityTypeParseError", {s}) :
                      s \in {x \in types.val : ~rs[x].ok}})

\* ValidatorApplySpec::new
ValidatorApplySpec(principal_apply_spec, resource_apply_spec) ==
    [principal_apply_spec |-> principal_apply_spec,
     resource_apply_spec |-> resource_apply_spec]

\* The shape of an entity type or the context of an action that gives none:
\* the closed record without attributes.
DefaultRecord ==
    [type |-> "Record", attributes |-> EmptyMap, additionalAttributes |-> FALSE]

\* An omitted appliesTo: unwrap_or_default.
DefaultAppliesTo ==
    [principal_types |-> None, resource_types |-> None, context |-> DefaultRecord]


build_action_ids(schema_file_actions, schema_namespace) ==
    LET ids == DOMAIN schema_file_actions
        euid(name) ==
            parse_action_id_with_namespace(default_type(name), schema_namespace)
        \* Invert the member_of relationship.
        pairs == {<<name, parent>> \in
                     ids \X UNION {IF schema_file_actions[n].member_of.some
                                   THEN schema_file_actions[n].member_of.val
                                   ELSE {} : n \in ids} :
                     /\ schema_file_actions[name].member_of.some
                     /\ parent \in schema_file_actions[name].member_of.val}
        edge(p) ==
            LET parent_euid == parse_action_id_with_namespace(p[2], schema_namespace)
            IN  IF ~parent_euid.ok THEN parent_euid
                ELSE Ok([parent |-> parent_euid.val, child |-> euid(p[1]).val])
        edges == {edge(p) : p \in pairs}
        children == [k \in {e.val.parent : e \in edges} |->
                       {e.val.child : e \in {x \in edges : x.val.parent = k}}]
        ctx(name) ==
            LET a == schema_file_actions[name]
                applies_to == IF a.applies_to.some THEN a.applies_to.val
                              ELSE DefaultAppliesTo
                principals == parse_apply_spec_type_list(
                                  applies_to.principal_types, schema_namespace)
                resources == parse_apply_spec_type_list(
                                 applies_to.resource_types, schema_namespace)
                action_context == try_schema_type_into_validator_type(
                                      schema_namespace, applies_to.context)
            IN  IF ~principals.ok THEN principals
                ELSE IF ~resources.ok THEN resources
                ELSE IF ~action_context.ok THEN action_context
                ELSE Ok([context |-> action_context.val,
                         applies_to |-> ValidatorApplySpec(principals.val,
                                                           resources.val)])
        ctxs == [name \in ids |-> ctx(name)]
        attrs(name) ==
            convert_attr_jsonval_map_to_attributes(
                IF schema_file_actions[name].attributes.some
                THEN schema_file_actions[name].attributes.val
                ELSE EmptyMap)
        atts == [name \in ids |-> attrs(name)]
        key(e) == CHOOSE name \in ids : euid(name).val = e
    IN  IF \E e \in edges : ~e.ok THEN Fail(ErrsOf(edges))
        ELSE IF \E n \in ids : ~ctxs[n].ok THEN Fail(ErrsOf({ctxs[n] : n \in ids}))
        ELSE IF \E n \in ids : ~atts[n].ok THEN Fail(ErrsOf({atts[n] : n \in ids}))
        ELSE Ok([context_applies_to |->
                     [e \in {euid(n).val : n \in ids} |-> ctxs[key(e)].val],
                 children |-> children,
                 attributes |->
                     [e \in {euid(n).val : n \in ids} |-> atts[key(e)].val]])

\* check_action_behavior that looks at the entity types only.
check_action_behavior_EntityTypesOnly(schema_file, behavior) ==
    IF \E name \in DOMAIN schema_file.entity_types : name = <<ACTION_ENTITY_TYPE>>
    THEN Fail({Err("ActionEntityTypeDeclared", {})})
    ELSE Ok(TRUE)

\* check_action_behavior that passes an attributes field without entries.
check_action_behavior_NonEmpty(schema_file, behavior) ==
    IF \E name \in DOMAIN schema_file.entity_types : name = <<ACTION_ENTITY_TYPE>>
    THEN Fail({Err("ActionEntityTypeDeclared", {})})
    ELSE LET actions_with_attributes ==
                 {name \in DOMAIN schema_file.actions :
                    /\ schema_file.actions[name].attributes.some
                    /\ schema_file.actions[name].attributes.val # EmptyMap} IN
         IF behavior = "ProhibitAttributes" /\ actions_with_attributes # {}
         THEN Fail({Err("ActionEntityAttributes",
                        {<<name>> : name \in actions_with_attributes})})
         ELSE Ok(TRUE)

\* check_action_behavior that looks at the action attributes only.
check_action_behavior_AttributesOnly(schema_file, behavior) ==
    LET actions_with_attributes ==
            {name \in DOMAIN schema_file.actions :
               schema_file.actions[name].attributes.some} IN
    IF behavior = "ProhibitAttributes" /\ actions_with_attributes # {}
    THEN Fail({Err("ActionEntityAttributes",
                   {<<name>> : name \in actions_with_attributes})})
    ELSE Ok(TRUE)

check_action_behavior(schema_file, behavior) ==
    IF \E name \in DOMAIN schema_file.entity_types : name = <<ACTION_ENTITY_TYPE>>
    THEN Fail({Err("ActionEntityTypeDeclared", {})})
    ELSE LET actions_with_attributes ==
                 {name \in DOMAIN schema_file.actions :
                    schema_file.actions[name].attributes.some} IN
         IF behavior = "ProhibitAttributes" /\ actions_with_attributes # {}
         THEN Fail({Err("ActionEntityAttributes",
                        {<<name>> : name \in actions_with_attributes})})
         ELSE Ok(TRUE)

\* ValidatorNamespaceDef that runs the action behavior check after the
\* conversions.
ValidatorNamespaceDef_CheckLast(ns, checked, tds, actions, ets) ==
    IF ~tds.ok THEN tds
    ELSE IF ~actions.ok THEN actions
    ELSE IF ~ets.ok THEN ets
    ELSE IF ~checked.ok THEN checked
    ELSE Ok([namespace |->
                 IF ns = <<>> THEN None
                 ELSE Some(Name(ns[Len(ns)], SubSeq(ns, 1, Len(ns) - 1))),
             type_defs |-> tds.val,
             entity_types |-> ets.val,
             actions |-> actions.val])

\* The ValidatorNamespaceDef of the namespace ns, or the error of the first
\* step that failed: the action behavior check, then the common types, the
\* actions and the entity types.
ValidatorNamespaceDef(ns, checked, tds, actions, ets) ==
    IF ~checked.ok THEN checked
    ELSE IF ~tds.ok THEN tds
    ELSE IF ~actions.ok THEN actions
    ELSE IF ~ets.ok THEN ets
    ELSE Ok([namespace |->
                 IF ns = <<>> THEN None
                 ELSE Some(Name(ns[Len(ns)], SubSeq(ns, 1, Len(ns) - 1))),
             type_defs |-> tds.val,
             entity_types |-> ets.val,
             actions |-> actions.val])

\* SchemaNamespace that takes the empty string for no namespace string.
SchemaNamespace_EmptyRejected(namespace) ==
    IF namespace.some
    THEN IF namespace.val # <<>> /\ parse_namespace(namespace.val).ok
         THEN Ok(namespace.val)
         ELSE Fail({Err("NamespaceParseError", {namespace.val})})
    ELSE Ok(<<>>)

\* The namespace a definition is converted under: None is the root namespace.
SchemaNamespace(namespace) ==
    IF namespace.some
    THEN IF parse_namespace(namespace.val).ok THEN Ok(namespace.val)
         ELSE Fail({Err("NamespaceParseError", {namespace.val})})
    ELSE Ok(<<>>)

\* namespace: None, or Some(the namespace string).
from_namespace_definition(namespace, namespace_def, behavior) ==
    IF ~SchemaNamespace(namespace).ok
    THEN SchemaNamespace(namespace)
    ELSE ValidatorNamespaceDef(
             SchemaNamespace(namespace).val,
             check_action_behavior(namespace_def, behavior),
             build_type_defs(namespace_def.common_types,
                             SchemaNamespace(namespace).val),
             build_action_ids(namespace_def.actions, SchemaNamespace(namespace).val),
             build_entity_types(namespace_def.entity_types,
                                SchemaNamespace(namespace).val))

\* ActionBehavior::default()
DefaultActionBehavior == "ProhibitAttributes"

\* TryInto<ValidatorNamespaceDef> for NamespaceDefinition
try_into(namespace_def) ==
    from_namespace_definition(None, namespace_def, DefaultActionBehavior)

\* collect::<Result<_>>() over the results rs: all the values, or the error
\* of a failed one.
Collect(rs) ==
    IF \A n \in DOMAIN rs : rs[n].ok
    THEN Ok([n \in DOMAIN rs |-> rs[n].val])
    ELSE Fail(ErrsOf({rs[n] : n \in DOMAIN rs}))

\* A SchemaFragment maps namespace strings to NamespaceDefinitions.
\* The result holds the converted definitions by namespace string; the Vec
\* the code collects lists them in the HashMap's iteration order.
from_schema_fragment(fragment, behavior) ==
    Collect([fragment_ns \in DOMAIN fragment |->
               from_namespace_definition(Some(fragment_ns), fragment[fragment_ns],
                                         behavior)])

(***************************************************************************)
(* Transitive closure (cedar_policy_core::transitive_closure) over the     *)
(* TCNode implementations of ValidatorEntityType and ValidatorActionId.    *)
(***************************************************************************)
get_key(node) == node.name

\* add_edge_to that adds nothing: the closure leaves every node as it was.
add_edge_to_Nothing(node, k) == node

add_edge_to(node, k) == [node EXCEPT !.descendants = @ \cup {k}]

out_edges(node) == node.descendants

\* has_edge_to that never finds an edge: no node is seen to reach itself.
has_edge_to_Never(node, e) == FALSE

has_edge_to(node, e) == e \in node.descendants

\* The keys reachable from the set s along out_edges; an edge to a key that
\* is not in the map is kept and not followed.
RECURSIVE add_ancestors_to_set(_, _)
add_ancestors_to_set(nodes, s) ==
    LET more == s \cup UNION {out_edges(nodes[k]) : k \in s \cap DOMAIN nodes} IN
    IF more = s THEN s ELSE add_ancestors_to_set(nodes, more)

RECURSIVE add_edges(_, _)
add_edges(node, ks) ==
    IF ks = {} THEN node
    ELSE LET k == CHOOSE x \in ks : TRUE IN add_edges(add_edge_to(node, k), ks \ {k})

\* compute_tc(nodes, enforce_dag): every node gets an edge to each key it
\* reaches; with enforce_dag, a node that reaches itself is an error.
compute_tc(nodes, enforce_dag) ==
    LET closed == [k \in DOMAIN nodes |->
                     add_edges(nodes[k],
                               add_ancestors_to_set(nodes, out_edges(nodes[k])))] IN
    IF enforce_dag /\ \E k \in DOMAIN closed : has_edge_to(closed[k], get_key(closed[k]))
    THEN Fail({Err("CycleInActionHierarchy", {})})
    ELSE Ok(closed)

(***************************************************************************)
(* ValidatorSchema::from_schema_fragments and its helpers.                 *)
(***************************************************************************)
\* record_attributes_or_error that takes a type that is not a record for a
\* record without attributes.
record_attributes_or_error_Lenient(ty) ==
    Ok(IF ty.tag = "Record" THEN ty.attrs ELSE EmptyMap)

record_attributes_or_error(ty) ==
    IF ty.tag = "Record" THEN Ok(ty.attrs)
    ELSE Fail({Err("ContextOrShapeNotRecord", {})})

\* check_undeclared_in_type that does not look inside sets and records.
check_undeclared_in_type_Flat(ty, ets) ==
    IF ty.tag = "Entity"
    THEN {NameToString(name) : name \in {n \in ty.lub : n \notin DOMAIN ets}}
    ELSE {}

\* The names of the entity types inside ty that are not declared (the code
\* inserts them into the set it is handed).
RECURSIVE check_undeclared_in_type(_, _)
check_undeclared_in_type(ty, ets) ==
    CASE ty.tag = "Entity" ->
            {NameToString(name) : name \in {n \in ty.lub : n \notin DOMAIN ets}}
      [] ty.tag = "Record" ->
            UNION {check_undeclared_in_type(ty.attrs[a].attr_type, ets) :
                     a \in DOMAIN ty.attrs}
      [] ty.tag = "Set" -> check_undeclared_in_type(ty.elem, ets)
      [] OTHER -> {}

\* UndeclaredApplies that skips the principal and resource types.
UndeclaredApplies_None(spec, ets) == {}

\* The undeclared Concrete entries of an applies_to set.
UndeclaredApplies(spec, ets) ==
    {NameToString(e.name) :
       e \in {x \in spec : x.kind = "Concrete" /\ x.name \notin DOMAIN ets}}

\* check_for_undeclared that reports the undeclared actions before the
\* undeclared entity types.
check_for_undeclared_ActionsFirst(ets, undeclared_parent_entities, aids, undeclared_parent_actions) ==
    LET undeclared_e ==
            {NameToString(n) : n \in undeclared_parent_entities}
            \cup UNION {check_undeclared_in_type(ets[n].attributes[a].attr_type, ets) :
                          <<n, a>> \in {p \in (DOMAIN ets) \X
                                          UNION {DOMAIN ets[m].attributes : m \in DOMAIN ets} :
                                          p[2] \in DOMAIN ets[p[1]].attributes}}
            \cup UNION {check_undeclared_in_type(aids[n].context[a].attr_type, ets) :
                          <<n, a>> \in {p \in (DOMAIN aids) \X
                                          UNION {DOMAIN aids[m].context : m \in DOMAIN aids} :
                                          p[2] \in DOMAIN aids[p[1]].context}}
            \cup UNION {UndeclaredApplies(aids[n].applies_to.principal_apply_spec, ets) :
                          n \in DOMAIN aids}
            \cup UNION {UndeclaredApplies(aids[n].applies_to.resource_apply_spec, ets) :
                          n \in DOMAIN aids}
        undeclared_a == {EuidToString(n) : n \in undeclared_parent_actions}
    IN  IF undeclared_a # {}
        THEN Fail({Err("UndeclaredActions", undeclared_a)})
        ELSE IF undeclared_e # {}
             THEN Fail({Err("UndeclaredEntityTypes", undeclared_e)})
             ELSE Ok(TRUE)

check_for_undeclared(ets, undeclared_parent_entities, aids, undeclared_parent_actions) ==
    LET undeclared_e ==
            {NameToString(n) : n \in undeclared_parent_entities}
            \cup UNION {check_undeclared_in_type(ets[n].attributes[a].attr_type, ets) :
                          <<n, a>> \in {p \in (DOMAIN ets) \X
                                          UNION {DOMAIN ets[m].attributes : m \in DOMAIN ets} :
                                          p[2] \in DOMAIN ets[p[1]].attributes}}
            \cup UNION {check_undeclared_in_type(aids[n].context[a].attr_type, ets) :
                          <<n, a>> \in {p \in (DOMAIN aids) \X
                                          UNION {DOMAIN aids[m].context : m \in DOMAIN aids} :
                                          p[2] \in DOMAIN aids[p[1]].context}}
            \cup UNION {UndeclaredApplies(aids[n].applies_to.principal_apply_spec, ets) :
                          n \in DOMAIN aids}
            \cup UNION {UndeclaredApplies(aids[n].applies_to.resource_apply_spec, ets) :
                          n \in DOMAIN aids}
        undeclared_a == {EuidToString(n) : n \in undeclared_parent_actions}
    IN  IF undeclared_e # {}
        THEN Fail({Err("UndeclaredEntityTypes", undeclared_e)})
        ELSE IF undeclared_a # {}
             THEN Fail({Err("UndeclaredActions", undeclared_a)})
             ELSE Ok(TRUE)

\* MergeChildren in which a later definition's children replace the earlier
\* ones of the same key.
MergeChildren_Replace(old, new) == new @@ old

\* The aggregate children map: a key of several definitions gets the union
\* of their child sets.
MergeChildren(old, new) ==
    [k \in DOMAIN old \cup DOMAIN new |->
       (IF k \in DOMAIN old THEN old[k] ELSE {})
       \cup (IF k \in DOMAIN new THEN new[k] ELSE {})]

\* MergeNamespaceDef that does not look for a common type declared before:
\* the declaration met last replaces the others.
MergeNamespaceDef_CommonTypesUnchecked(ns_def) ==
    LET dup_e == DOMAIN ns_def.entity_types.attributes \cap DOMAIN entity_attributes
        dup_c == DOMAIN ns_def.actions.context_applies_to
                 \cap DOMAIN action_context_applies_to
        dup_a == DOMAIN ns_def.actions.attributes \cap DOMAIN action_attributes
    IN  IF dup_e # {}
        THEN Fail({Err("DuplicateEntityType", {NameToString(n)}) : n \in dup_e})
        ELSE IF dup_c # {}
        THEN Fail({Err("DuplicateAction", {EuidToString(n)}) : n \in dup_c})
        ELSE IF dup_a # {}
        THEN Fail({Err("DuplicateAction", {EuidToString(n)}) : n \in dup_a})
        ELSE Ok([type_defs |-> ns_def.type_defs @@ type_defs,
                 entity_attributes |->
                     ns_def.entity_types.attributes @@ entity_attributes,
                 action_context_applies_to |->
                     ns_def.actions.context_applies_to @@ action_context_applies_to,
                 action_attributes |-> ns_def.actions.attributes @@ action_attributes,
                 entity_children |->
                     MergeChildren(entity_children, ns_def.entity_types.children),
                 action_children |->
                     MergeChildren(action_children, ns_def.actions.children)])

\* MergeNamespaceDef that does not look for an entity type declared before.
MergeNamespaceDef_EntityTypesUnchecked(ns_def) ==
    LET dup_t == DOMAIN ns_def.type_defs \cap DOMAIN type_defs
        dup_c == DOMAIN ns_def.actions.context_applies_to
                 \cap DOMAIN action_context_applies_to
        dup_a == DOMAIN ns_def.actions.attributes \cap DOMAIN action_attributes
    IN  IF dup_t # {}
        THEN Fail({Err("DuplicateCommonType", {NameToString(n)}) : n \in dup_t})
        ELSE IF dup_c # {}
        THEN Fail({Err("DuplicateAction", {EuidToString(n)}) : n \in dup_c})
        ELSE IF dup_a # {}
        THEN Fail({Err("DuplicateAction", {EuidToString(n)}) : n \in dup_a})
        ELSE Ok([type_defs |-> ns_def.type_defs @@ type_defs,
                 entity_attributes |->
                     ns_def.entity_types.attributes @@ entity_attributes,
                 action_context_applies_to |->
                     ns_def.actions.context_applies_to @@ action_context_applies_to,
                 action_attributes |-> ns_def.actions.attributes @@ action_attributes,
                 entity_children |->
                     MergeChildren(entity_children, ns_def.entity_types.children),
                 action_children |->
                     MergeChildren(action_children, ns_def.actions.children)])

\* The aggregate maps of from_schema_fragments, as one value.
Aggregate ==
    [type_defs |-> type_defs,
     entity_attributes |-> entity_attributes,
     action_context_applies_to |-> action_context_applies_to,
     action_attributes |-> action_attributes,
     entity_children |-> entity_children,
     action_children |-> action_children]

\* MergeInto in which a definition declaring what is declared already
\* leaves the earlier declaration in place.
MergeInto_FirstWins(agg, ns_def) ==
    Ok([type_defs |-> agg.type_defs @@ ns_def.type_defs,
        entity_attributes |->
            agg.entity_attributes @@ ns_def.entity_types.attributes,
        action_context_applies_to |->
            agg.action_context_applies_to @@ ns_def.actions.context_applies_to,
        action_attributes |-> agg.action_attributes @@ ns_def.actions.attributes,
        entity_children |->
            MergeChildren(agg.entity_children, ns_def.entity_types.children),
        action_children |->
            MergeChildren(agg.action_children, ns_def.actions.children)])

\* The aggregate maps agg after one more ValidatorNamespaceDef (body of the
\* loop over the fragments' definitions).
MergeInto(agg, ns_def) ==
    LET dup_t == DOMAIN ns_def.type_defs \cap DOMAIN agg.type_defs
        dup_e == DOMAIN ns_def.entity_types.attributes
                 \cap DOMAIN agg.entity_attributes
        dup_c == DOMAIN ns_def.actions.context_applies_to
                 \cap DOMAIN agg.action_context_applies_to
        dup_a == DOMAIN ns_def.actions.attributes \cap DOMAIN agg.action_attributes
    IN  IF dup_t # {}
        THEN Fail({Err("DuplicateCommonType", {NameToString(n)}) : n \in dup_t})
        ELSE IF dup_e # {}
        THEN Fail({Err("DuplicateEntityType", {NameToString(n)}) : n \in dup_e})
        ELSE IF dup_c # {}
        THEN Fail({Err("DuplicateAction", {EuidToString(n)}) : n \in dup_c})
        ELSE IF dup_a # {}
        THEN Fail({Err("DuplicateAction", {EuidToString(n)}) : n \in dup_a})
        ELSE Ok([type_defs |-> ns_def.type_defs @@ agg.type_defs,
                 entity_attributes |->
                     ns_def.entity_types.attributes @@ agg.entity_attributes,
                 action_context_applies_to |->
                     ns_def.actions.context_applies_to
                        @@ agg.action_context_applies_to,
                 action_attributes |->
                     ns_def.actions.attributes @@ agg.action_attributes,
                 entity_children |->
                     MergeChildren(agg.entity_children, ns_def.entity_types.children),
                 action_children |->
                     MergeChildren(agg.action_children, ns_def.actions.children)])

\* One turn of the loop on the aggregate maps of the state.
MergeNamespaceDef(ns_def) == MergeInto(Aggregate, ns_def)

\* The ValidatorEntityTypes before the closure: descendants are the children.
EntityTypesOf(agg) ==
    LET attrs(name) ==
            LET ty == resolve_type_defs(agg.entity_attributes[name], agg.type_defs) IN
            IF ty.ok THEN record_attributes_or_error(ty.val) ELSE ty
        rs == [name \in DOMAIN agg.entity_attributes |-> attrs(name)]
    IN  IF \A n \in DOMAIN rs : rs[n].ok
        THEN Ok([name \in DOMAIN rs |->
                   [name |-> name,
                    descendants |-> IF name \in DOMAIN agg.entity_children
                                    THEN agg.entity_children[name] ELSE {},
                    attributes |-> rs[name].val]])
        ELSE Fail(ErrsOf({rs[n] : n \in DOMAIN rs}))

BuildEntityTypes == EntityTypesOf(Aggregate)

\* The ValidatorActionIds before the closure.
ActionIdsOf(agg) ==
    LET ctx(name) ==
            LET ty == resolve_type_defs(agg.action_context_applies_to[name].context,
                                        agg.type_defs) IN
            IF ty.ok THEN record_attributes_or_error(ty.val) ELSE ty
        rs == [name \in DOMAIN agg.action_context_applies_to |-> ctx(name)]
    IN  IF \A n \in DOMAIN rs : rs[n].ok
        THEN Ok([name \in DOMAIN rs |->
                   [name |-> name,
                    applies_to |-> agg.action_context_applies_to[name].applies_to,
                    descendants |-> IF name \in DOMAIN agg.action_children
                                    THEN agg.action_children[name] ELSE {},
                    context |-> rs[name].val,
                    attributes |-> IF name \in DOMAIN agg.action_attributes
                                   THEN agg.action_attributes[name] ELSE EmptyMap]])
        ELSE Fail(ErrsOf({rs[n] : n \in DOMAIN rs}))

BuildActionIds == ActionIdsOf(Aggregate)

\* RemoveDeclared that removes nothing.
RemoveDeclared_Nothing(children, declared) == children

\* children without the keys that are declared (HashMap::remove per declaration).
RemoveDeclared(children, declared) ==
    [k \in DOMAIN children \ declared |-> children[k]]

\* The orders in which a HashMap with the keys S can be iterated.
Orders(S) ==
    {o \in [1..Cardinality(S) -> S] : \A i, j \in 1..Cardinality(S) :
                                         o[i] = o[j] => i = j}

(***************************************************************************)
(* The conversion of the fragments and from_schema_fragments as one        *)
(* function of the fragments, the behavior and the orders os in which the  *)
(* converted fragments' definitions are iterated.                          *)
(***************************************************************************)
EmptyAggregate ==
    [type_defs |-> EmptyMap,
     entity_attributes |-> EmptyMap,
     action_context_applies_to |-> EmptyMap,
     action_attributes |-> EmptyMap,
     entity_children |-> EmptyMap,
     action_children |-> EmptyMap]

\* The loop over the definitions defs, from the aggregate maps agg.
RECURSIVE MergeAll(_, _)
MergeAll(agg, defs) ==
    IF defs = <<>> THEN Ok(agg)
    ELSE LET r == MergeInto(agg, Head(defs)) IN
         IF r.ok THEN MergeAll(r.val, Tail(defs)) ELSE r

\* The definitions of the converted fragments cs, one after the other, each
\* fragment's in the order os gives for it.
RECURSIVE Definitions(_, _)
Definitions(cs, os) ==
    IF cs = <<>> THEN <<>>
    ELSE [i \in 1..Len(Head(os)) |-> Head(cs).val[Head(os)[i]]]
         \o Definitions(Tail(cs), Tail(os))

\* check_for_undeclared on the closed maps, then the ValidatorSchema.
SchemaChecked(ets, aids, entity_parents, action_parents) ==
    LET r == check_for_undeclared(ets, entity_parents, aids, action_parents) IN
    IF r.ok THEN Ok([entity_types |-> ets, action_ids |-> aids]) ELSE r

\* compute_tc on the action ids, with the closed entity types ets.
ActionsClosed(ets, r, entity_parents, action_parents) ==
    IF r.ok THEN SchemaChecked(ets, r.val, entity_parents, action_parents) ELSE r

\* compute_tc on the entity types.
EntityTypesClosed(r, aids, entity_parents, action_parents) ==
    IF r.ok
    THEN ActionsClosed(r.val, compute_tc(aids, TRUE), entity_parents, action_parents)
    ELSE r

\* The action ids, with the entity types ets and the parents left undeclared.
ActionIdsBuilt(ets, r, entity_parents, agg) ==
    IF r.ok
    THEN EntityTypesClosed(compute_tc(ets, FALSE), r.val, entity_parents,
                           DOMAIN RemoveDeclared(agg.action_children, DOMAIN r.val))
    ELSE r

\* The entity types of the merged maps.
EntityTypesBuilt(r, agg) ==
    IF r.ok
    THEN ActionIdsBuilt(r.val, ActionIdsOf(agg),
                        DOMAIN RemoveDeclared(agg.entity_children, DOMAIN r.val), agg)
    ELSE r

\* The steps after the loop, on its result.
FragmentsMerged(r) == IF r.ok THEN EntityTypesBuilt(EntityTypesOf(r.val), r.val) ELSE r

\* The steps after the conversions cs of the fragments.
FragmentsConverted(cs, os) ==
    IF \A i \in 1..Len(cs) : cs[i].ok
    THEN FragmentsMerged(MergeAll(EmptyAggregate, Definitions(cs, os)))
    ELSE LET i == CHOOSE k \in 1..Len(cs) :
                     ~cs[k].ok /\ \A l \in 1..(k - 1) : cs[l].ok
         IN  cs[i]

from_schema_fragments(frags, behavior, os) ==
    FragmentsConverted([i \in 1..Len(frags) |->
                          from_schema_fragment(frags[i], behavior)], os)

\* The orders in which the definitions of the fragments can be iterated:
\* one order of its namespaces for every fragment.
IterationOrders(frags) ==
    {os \in [1..Len(frags) -> UNION {Orders(DOMAIN frags[i]) : i \in 1..Len(frags)}] :
       \A i \in 1..Len(frags) : os[i] \in Orders(DOMAIN frags[i])}

(***************************************************************************)
(* Inputs.                                                                 *)
(***************************************************************************)
SubsetsUpTo(S, k) == {x \in SUBSET S : Cardinality(x) <= k}

Root == <<>>
Foo == <<"Foo">>

EntityDecl(parents, shape) == [member_of_types |-> parents, shape |-> shape]

ActionDecl(member_of, applies_to, attributes) ==
    [member_of |-> member_of, applies_to |-> applies_to, attributes |-> attributes]

NsDef(common_types, ets, actions) ==
    [common_types |-> common_types, entity_types |-> ets, actions |-> actions]

\* The map with the key k when the declaration is given, else the empty map.
Decl(k, opt) == IF opt.some THEN k :> opt.val ELSE EmptyMap

Input(frags, behavior) == [fragments |-> frags, behavior |-> behavior]

\* Entity hierarchies: A in the root namespace, A and B in Foo, each absent
\* or declared with up to MaxParents parents; Foo::B comes in a fragment of
\* its own.
EntityRefs == {<<"A">>, <<"B">>, <<"Foo", "A">>, <<"Foo", "B">>}

EntityOpts ==
    {None} \cup {Some(EntityDecl(ps, DefaultRecord)) :
                   ps \in SubsetsUpTo(EntityRefs, MaxParents)}

EntityInputs ==
    {Input(<< (Root :> NsDef(EmptyMap, Decl(<<"A">>, ra), EmptyMap))
              @@ (Foo :> NsDef(EmptyMap, Decl(<<"A">>, fa), EmptyMap)),
              (Foo :> NsDef(EmptyMap, Decl(<<"B">>, fb), EmptyMap)) >>,
           "ProhibitAttributes") :
       <<ra, fa, fb>> \in EntityOpts \X EntityOpts \X EntityOpts}

\* Action hierarchies: x and y in the root namespace, x in Foo, each absent,
\* declared without memberOf, or with up to MaxParents parents; the root y
\* comes in a fragment of its own.
ActionRefs ==
    {[id |-> "x", ty |-> None], [id |-> "y", ty |-> None],
     [id |-> "y", ty |-> Some(<<"Action">>)],
     [id |-> "x", ty |-> Some(<<"Foo", "Action">>)]}

ActionOpts ==
    {None} \cup {Some(ActionDecl(m, None, None)) :
                   m \in {None} \cup {Some(ps) :
                                        ps \in SubsetsUpTo(ActionRefs, MaxParents)}}

ActionInputs ==
    {Input(<< (Root :> NsDef(EmptyMap, EmptyMap, Decl("x", rx)))
              @@ (Foo :> NsDef(EmptyMap, EmptyMap, Decl("x", fx))),
              (Root :> NsDef(EmptyMap, EmptyMap, Decl("y", ry))) >>,
           "ProhibitAttributes") :
       <<rx, fx, ry>> \in ActionOpts \X ActionOpts \X ActionOpts}

\* Attribute types nested up to depth d over Long, a reference to A of the
\* enclosing namespace and a reference to Bar::U, which nothing declares.
RECURSIVE SchemaTypes(_)
SchemaTypes(d) ==
    LET leaves == {[type |-> "Long"], [type |-> "Entity", name |-> <<"A">>],
                   [type |-> "Entity", name |-> <<"Bar", "U">>]} IN
    IF d = 0 THEN leaves
    ELSE LET inner == SchemaTypes(d - 1) IN
         inner \cup {[type |-> "Set", element |-> t] : t \in inner}
               \cup {[type |-> "Record",
                      attributes |-> ("g" :> [ty |-> t, required |-> TRUE]),
                      additionalAttributes |-> FALSE] : t \in inner}

\* Shapes and contexts: no attribute, or one optional attribute f.
Shapes ==
    {DefaultRecord} \cup
    {[type |-> "Record", attributes |-> ("f" :> [ty |-> t, required |-> FALSE]),
      additionalAttributes |-> FALSE] : t \in SchemaTypes(MaxDepth)}

\* One definition in Foo: entity type A (absent or declared), and action x
\* with a context, an appliesTo and possibly a parent that nothing declares.
MixedInputs ==
    {Input(<< (Foo :> NsDef(EmptyMap, Decl(<<"A">>, ea), "x" :> ax)) >>,
           "ProhibitAttributes") :
       <<ea, ax>> \in
         ({None} \cup {Some(EntityDecl(ps, sh)) :
                         <<ps, sh>> \in {{}, {<<"B">>}} \X Shapes})
         \X {ActionDecl(m, Some([principal_types |-> pt, resource_types |-> rt,
                                 context |-> cx]), None) :
               <<m, pt, rt, cx>> \in
                 {None, Some({[id |-> "z", ty |-> None]})}
                 \X {None, Some({<<"A">>}), Some({<<"A">>, <<"Bar", "U">>})}
                 \X {None, Some({<<"Foo", "A">>})}
                 \X Shapes}}

\* Definitions that from_namespace_definition can reject: an ill-formed
\* namespace, an entity type named Action, an ill-formed entity type name,
\* actions with an attributes field (x: absent, empty or not; y: absent or
\* empty), under either behavior.
RejectedInputs ==
    {Input(<< (ns :> NsDef(EmptyMap,
                           e :> EntityDecl({}, DefaultRecord),
                           ("x" :> ActionDecl(None, None, at))
                           @@ ("y" :> ActionDecl(None, None, ay)))) >>, b) :
       <<ns, e, at, ay, b>> \in
         {Root, Foo, <<"">>}
         \X {<<"A">>, <<"Action">>, <<"">>}
         \X {None, Some(EmptyMap), Some("k" :> [j |-> "Long"]),
             Some("k" :> [j |-> "Set", elems |-> <<>>])}
         \X {None, Some(EmptyMap)}
         \X {"ProhibitAttributes", "PermitAttributes"}}

\* Entity types and actions together, in the root namespace: the chains
\* A in B in C and x in y in z, each link present or not, C and z declared
\* or not.
ChainInputs ==
    {Input(<< (Root :> NsDef(EmptyMap,
                             (<<"A">> :> EntityDecl(ab, DefaultRecord))
                             @@ (<<"B">> :> EntityDecl(bc, DefaultRecord))
                             @@ Decl(<<"C">>, c),
                             ("x" :> ActionDecl(Some(xy), None, None))
                             @@ ("y" :> ActionDecl(Some(yz), None, None))
                             @@ Decl("z", z))) >>,
           "ProhibitAttributes") :
       <<ab, bc, c, xy, yz, z>> \in
         {{}, {<<"B">>}} \X {{}, {<<"C">>}}
         \X {None, Some(EntityDecl({}, DefaultRecord))}
         \X {{}, {[id |-> "y", ty |-> None]}} \X {{}, {[id |-> "z", ty |-> None]}}
         \X {None, Some(ActionDecl(None, None, None))}}

\* Common types.  Schema types used as alias bodies, shapes and contexts.
LongType == [type |-> "Long"]
SetOf(t) == [type |-> "Set", element |-> t]
EntityRef(n) == [type |-> "Entity", name |-> n]
TypeRef(n) == [type |-> "TypeDef", type_name |-> n]
RecordOf(attrs) ==
    [type |-> "Record", attributes |-> attrs, additionalAttributes |-> FALSE]
Attr(t, req) == [ty |-> t, required |-> req]
RecG == RecordOf("g" :> Attr(LongType, TRUE))
RecF(t) == RecordOf("f" :> Attr(t, FALSE))

\* Fragment 1 declares, in Foo, the entity type A and the action x and maybe
\* aliases (T; or T and W, T referring to W), and maybe an alias in Bar (T,
\* or a builtin name); fragment 2 declares maybe an alias in Foo (U,
\* or T again).  The shape of A and the context of x are records with alias
\* references, alias references themselves, or types that are no records.
AliasInputs ==
    {Input(<< (Foo :> NsDef(ft, <<"A">> :> EntityDecl({}, sh),
                            "x" :> ActionDecl(None,
                                              Some([principal_types |-> None,
                                                    resource_types |-> None,
                                                    context |-> cx]), None)))
              @@ (<<"Bar">> :> NsDef(bt, EmptyMap, EmptyMap)),
              (Foo :> NsDef(ft2, EmptyMap, EmptyMap)) >>,
           "ProhibitAttributes") :
       <<ft, bt, ft2, sh, cx>> \in
         {EmptyMap, <<"T">> :> LongType, <<"T">> :> RecG,
          <<"T">> :> SetOf(EntityRef(<<"A">>)), <<"T">> :> TypeRef(<<"U">>),
          <<"T">> :> RecF(SetOf(TypeRef(<<"Bar", "T">>))),
          (<<"T">> :> TypeRef(<<"W">>)) @@ (<<"W">> :> LongType)}
         \X ({EmptyMap, <<"T">> :> LongType, <<"T">> :> RecG,
              <<"T">> :> SetOf(EntityRef(<<"Foo", "A">>))}
             \cup {<<b>> :> LongType : b \in SCHEMA_TYPE_VARIANT_TAGS})
         \X {EmptyMap, <<"U">> :> LongType, <<"U">> :> RecG, <<"T">> :> RecG}
         \X ({DefaultRecord, LongType, EntityRef(<<"A">>),
              RecF(SetOf(TypeRef(<<"T">>))),
              RecordOf(("f" :> Attr(TypeRef(<<"T">>), FALSE))
                       @@ ("h" :> Attr(TypeRef(<<"Bar", "T">>), TRUE)))}
             \cup {RecF(TypeRef(r)) : r \in {<<"T">>, <<"U">>, <<"Bar", "T">>, <<"V">>}}
             \cup {TypeRef(r) : r \in {<<"T">>, <<"U">>, <<"Bar", "T">>}})
         \X {DefaultRecord, RecF(TypeRef(<<"U">>)), TypeRef(<<"T">>),
             [type |-> "String"]}}

\* Declarations that may collide: the entity type A and the action x, each
\* absent or declared, in Foo and in the root namespace of fragment 1 and
\* in Foo of fragment 2, and A in Foo of fragment 3.
DupInputs ==
    {Input(<< (Foo :> NsDef(EmptyMap, Decl(<<"A">>, o[1]), Decl("x", o[2])))
              @@ (Root :> NsDef(EmptyMap, Decl(<<"A">>, o[3]), Decl("x", o[4]))),
              (Foo :> NsDef(EmptyMap, Decl(<<"A">>, o[5]), Decl("x", o[6]))),
              (Foo :> NsDef(EmptyMap, Decl(<<"A">>, o[7]), EmptyMap)) >>,
           "ProhibitAttributes") :
       o \in {None, Some(EntityDecl({}, DefaultRecord))}
             \X {None, Some(ActionDecl(None, None, None))}
             \X {None, Some(EntityDecl({}, DefaultRecord))}
             \X {None, Some(ActionDecl(None, None, None))}
             \X {None, Some(EntityDecl({}, DefaultRecord))}
             \X {None, Some(ActionDecl(None, None, None))}
             \X {None, Some(EntityDecl({}, DefaultRecord))}}

\* The root namespace and Foo each declare the entity type A and the action
\* x, whose appliesTo is omitted or gives each list as omitted, empty, or
\* naming A without and with its namespace.
TypeLists == {None, Some({}), Some({<<"A">>}), Some({<<"A">>, <<"Foo", "A">>})}

AppliesToOpts ==
    {None} \cup {Some([principal_types |-> pt, resource_types |-> rt,
                       context |-> DefaultRecord]) :
                   <<pt, rt>> \in TypeLists \X TypeLists}

AppliesToInputs ==
    {Input(<< (Root :> NsDef(EmptyMap, <<"A">> :> EntityDecl({}, DefaultRecord),
                             "x" :> ActionDecl(None, ra, None)))
              @@ (Foo :> NsDef(EmptyMap, <<"A">> :> EntityDecl({}, DefaultRecord),
                               "x" :> ActionDecl(None, fa, None))) >>,
           "ProhibitAttributes") :
       <<ra, fa>> \in AppliesToOpts \X AppliesToOpts}

\* Action attribute values nested up to depth d: booleans, longs, strings,
\* an entity escape, records of one or two fields, sets of one or two
\* elements and the empty set.
JsonSet(elems) == [j |-> "Set", elems |-> elems]
JsonRecord(fields) == [j |-> "Record", fields |-> fields]

RECURSIVE JsonValues(_)
JsonValues(d) ==
    LET leaves == {[j |-> "Bool"], [j |-> "Long"], [j |-> "String"],
                   [j |-> "EntityEscape"], JsonSet(<<>>)} IN
    IF d = 0 THEN leaves
    ELSE LET inner == JsonValues(d - 1) IN
         inner \cup {JsonSet(<<v>>) : v \in inner}
               \cup {JsonRecord("f" :> v) : v \in inner}
               \cup {JsonSet(<<[j |-> "Long"], v>>) : v \in leaves}
               \cup {JsonRecord(("f" :> v) @@ ("g" :> JsonSet(<<>>))) :
                       v \in {[j |-> "Long"], [j |-> "EntityEscape"]}}

\* The action x with one attribute k, and y with no attributes field or an
\* empty one, in the root namespace under PermitAttributes.
AttributeInputs ==
    {Input(<< (Root :> NsDef(EmptyMap, EmptyMap,
                             ("x" :> ActionDecl(None, None, Some("k" :> v)))
                             @@ ("y" :> ActionDecl(None, None, ya)))) >>,
           "PermitAttributes") :
       <<v, ya>> \in JsonValues(MaxJsonDepth) \X {None, Some(EmptyMap)}}

\* Cycles and undeclared references together, in the root namespace: A with
\* or without the undeclared parent B; x a member of nothing, of y, of
\* itself or of y and the undeclared z, applying to any principal, to A or
\* to the undeclared C; y a member of nothing or of x.
CycleInputs ==
    {Input(<< (Root :> NsDef(EmptyMap, <<"A">> :> EntityDecl(ps, DefaultRecord),
                             ("x" :> ActionDecl(Some(mx),
                                                Some([principal_types |-> pt,
                                                      resource_types |-> None,
                                                      context |-> DefaultRecord]),
                                                None))
                             @@ ("y" :> ActionDecl(Some(my), None, None)))) >>,
           "ProhibitAttributes") :
       <<ps, mx, pt, my>> \in
         {{}, {<<"B">>}}
         \X {{}, {[id |-> "y", ty |-> None]}, {[id |-> "x", ty |-> None]},
             {[id |-> "y", ty |-> None], [id |-> "z", ty |-> None]}}
         \X {None, Some({<<"A">>}), Some({<<"C">>})}
         \X {{}, {[id |-> "x", ty |-> None]}}}

\* Parents of another type than Action: the root x is a member of y or x of
\* the type Act or Foo::Act, maybe of the root y as well, and applies to
\* the undeclared principal type C or to any; the root y is a member of
\* nothing or of x; Foo declares the entity type Act and the action y, or
\* not.
ForeignRefs ==
    {[id |-> "y", ty |-> Some(<<"Act">>)], [id |-> "y", ty |-> Some(<<"Foo", "Act">>)],
     [id |-> "x", ty |-> Some(<<"Act">>)]}

ForeignParentInputs ==
    {Input(<< (Root :> NsDef(EmptyMap, Decl(<<"Act">>, ra),
                             ("x" :> ActionDecl(Some(mx),
                                                Some([principal_types |-> pt,
                                                      resource_types |-> None,
                                                      context |-> DefaultRecord]),
                                                None))
                             @@ ("y" :> ActionDecl(Some(my), None, None))))
              @@ (Foo :> NsDef(EmptyMap, Decl(<<"Act">>, fa), Decl("y", fy))) >>,
           "ProhibitAttributes") :
       <<ra, mx, pt, my, fa, fy>> \in
         {None, Some(EntityDecl({}, DefaultRecord))}
         \X ({{}} \cup {{r} : r \in ForeignRefs}
                  \cup {{r, [id |-> "y", ty |-> None]} : r \in ForeignRefs})
         \X {None, Some({<<"C">>})}
         \X {{}, {[id |-> "x", ty |-> None]}}
         \X {None, Some(EntityDecl({}, DefaultRecord))}
         \X {None, Some(ActionDecl(None, None, None))}}

\* Aliases across namespaces: Bar declares the alias T, whose body refers to
\* the entity type A without a namespace or to Foo::A, and maybe the entity
\* type A; Foo declares the entity type A with the attribute f of the type
\* Bar::T, T or V, and maybe an alias T; the root namespace, in a fragment
\* of its own, declares maybe the alias T or V and maybe the entity type A.
CrossNamespaceInputs ==
    {Input(<< (<<"Bar">> :> NsDef(<<"T">> :> bt, Decl(<<"A">>, ba), EmptyMap))
              @@ (Foo :> NsDef(ft, <<"A">> :> EntityDecl({}, RecF(TypeRef(r))),
                               EmptyMap)),
              (Root :> NsDef(rt, Decl(<<"A">>, ra), EmptyMap)) >>,
           "ProhibitAttributes") :
       <<bt, ba, ft, r, rt, ra>> \in
         {SetOf(EntityRef(<<"A">>)), RecF(EntityRef(<<"A">>)),
          EntityRef(<<"Foo", "A">>)}
         \X {None, Some(EntityDecl({}, DefaultRecord))}
         \X {EmptyMap, <<"T">> :> LongType}
         \X {<<"Bar", "T">>, <<"T">>, <<"V">>}
         \X {EmptyMap, <<"T">> :> LongType, <<"V">> :> LongType}
         \X {None, Some(EntityDecl({}, DefaultRecord))}}

\* Definitions that fail the action behavior check, a conversion, or both:
\* an alias with a builtin name or referring to another alias; an entity
\* type named Action, with an ill-formed name or with an open record for a
\* shape; an attribute of x that is a long or an empty set.
OpenRecord == [DefaultRecord EXCEPT !.additionalAttributes = TRUE]

PrecedenceInputs ==
    {Input(<< (ns :> NsDef(ct, et, "x" :> ActionDecl(None, None, at))) >>, b) :
       <<ns, ct, et, at, b>> \in
         {Root, Foo}
         \X {EmptyMap, <<"String">> :> LongType, <<"T">> :> TypeRef(<<"U">>)}
         \X {<<"A">> :> EntityDecl({}, DefaultRecord),
             <<"A">> :> EntityDecl({}, OpenRecord),
             <<"">> :> EntityDecl({}, DefaultRecord),
             <<"Action">> :> EntityDecl({}, DefaultRecord),
             (<<"Action">> :> EntityDecl({}, DefaultRecord))
                @@ (<<"">> :> EntityDecl({}, DefaultRecord)),
             (<<"Action">> :> EntityDecl({}, DefaultRecord))
                @@ (<<"A">> :> EntityDecl({}, OpenRecord))}
         \X {None, Some("k" :> [j |-> "Long"]), Some("k" :> JsonSet(<<>>))}
         \X {"ProhibitAttributes", "PermitAttributes"}}

\* NamespaceDefinitions compiled by themselves: those of the inputs that are
\* one fragment of the root namespace alone, under the default behavior.
SingleDefinitions ==
    {in.fragments[1][Root] :
       in \in {i \in ChainInputs \cup RejectedInputs :
                 DOMAIN i.fragments[1] = {Root} /\ i.behavior = DefaultActionBehavior}}

\* The inputs, family by family.
Inputs ==
    <<EntityInputs, ActionInputs, MixedInputs, RejectedInputs, ChainInputs,
      AliasInputs, DupInputs, AppliesToInputs, AttributeInputs, CycleInputs,
      PrecedenceInputs, ForeignParentInputs, CrossNamespaceInputs>>

(***************************************************************************)
(* The compilation, step by step.                                          *)
(***************************************************************************)
Pending == [status |-> "Pending"]
Success(schema) == [status |-> "Ok", schema |-> schema]
Error(e) == [status |-> "Err", err |-> e]

Init ==
    /\ \/ /\ entry = "fragments"
          /\ \E family \in 1..Len(Inputs) : \E in \in Inputs[family] :
                fragments = in.fragments /\ action_behavior = in.behavior
       \/ /\ entry = "definition"
          /\ \E def \in SingleDefinitions : fragments = << (Root :> def) >>
          /\ action_behavior = DefaultActionBehavior
    /\ pc = "convert"
    /\ next_fragment = 1
    /\ ns_defs = <<>>
    /\ type_defs = EmptyMap
    /\ entity_attributes = EmptyMap
    /\ entity_children = EmptyMap
    /\ action_context_applies_to = EmptyMap
    /\ action_children = EmptyMap
    /\ action_attributes = EmptyMap
    /\ entity_types = EmptyMap
    /\ action_ids = EmptyMap
    /\ result = Pending

\* The compilation stops with the error e; pc stays at the step that failed.
Abort(e) ==
    /\ result' = Error(e)
    /\ pc' = pc

\* The caller's step after a fragment's conversion gave r: its definitions
\* join those to merge, or the compilation stops with its error.
Converted(r) ==
    IF r.ok
    THEN /\ \E o \in Orders(DOMAIN r.val) :
              ns_defs' = ns_defs \o [i \in 1..Len(o) |-> r.val[o[i]]]
         /\ next_fragment' = next_fragment + 1
         /\ pc' = IF next_fragment = Len(fragments) THEN "merge" ELSE "convert"
         /\ UNCHANGED result
    ELSE /\ \E e \in r.errs : Abort(e)
         /\ UNCHANGED <<ns_defs, next_fragment>>

\* ValidatorSchemaFragment::from_schema_fragment on the next fragment.
ConvertFragment ==
    /\ entry = "fragments"
    /\ pc = "convert"
    /\ result = Pending
    /\ Converted(from_schema_fragment(fragments[next_fragment], action_behavior))
    /\ UNCHANGED <<entry, fragments, action_behavior, type_defs, entity_attributes,
                   entity_children, action_context_applies_to, action_children,
                   action_attributes, entity_types, action_ids>>

\* TryInto<ValidatorSchema> for NamespaceDefinition: the definition is
\* converted without a namespace under the default ActionBehavior and makes
\* a fragment by itself (from_namespaces).
ConvertNamespaceDefinition ==
    /\ entry = "definition"
    /\ pc = "convert"
    /\ result = Pending
    /\ Converted(Collect([n \in {Root} |-> try_into(fragments[1][Root])]))
    /\ UNCHANGED <<entry, fragments, action_behavior, type_defs, entity_attributes,
                   entity_children, action_context_applies_to, action_children,
                   action_attributes, entity_types, action_ids>>

\* from_schema_fragments: one turn of the loop over the definitions.
MergeFragments ==
    /\ pc = "merge"
    /\ result = Pending
    /\ LET r == MergeNamespaceDef(Head(ns_defs)) IN
       IF r.ok
       THEN /\ type_defs' = r.val.type_defs
            /\ entity_attributes' = r.val.entity_attributes
            /\ entity_children' = r.val.entity_children
            /\ action_context_applies_to' = r.val.action_context_applies_to
            /\ action_children' = r.val.action_children
            /\ action_attributes' = r.val.action_attributes
            /\ ns_defs' = Tail(ns_defs)
            /\ pc' = IF Len(ns_defs) = 1 THEN "entity_types" ELSE "merge"
            /\ UNCHANGED result
       ELSE /\ \E e \in r.errs : Abort(e)
            /\ UNCHANGED <<type_defs, entity_attributes, entity_children,
                           action_context_applies_to, action_children,
                           action_attributes, ns_defs>>
    /\ UNCHANGED <<entry, fragments, action_behavior, next_fragment, entity_types, action_ids>>

\* from_schema_fragments: the entity types, their children as descendants.
CollectEntityTypes ==
    /\ pc = "entity_types"
    /\ result = Pending
    /\ LET r == BuildEntityTypes IN
       IF r.ok
       THEN /\ entity_types' = r.val
            /\ entity_children' = RemoveDeclared(entity_children, DOMAIN r.val)
            /\ pc' = "action_ids"
            /\ UNCHANGED result
       ELSE /\ \E e \in r.errs : Abort(e)
            /\ UNCHANGED <<entity_types, entity_children>>
    /\ UNCHANGED <<entry, fragments, action_behavior, next_fragment, ns_defs, type_defs,
                   entity_attributes, action_context_applies_to, action_children,
                   action_attributes, action_ids>>

\* from_schema_fragments: the action ids, their children as descendants.
CollectActionIds ==
    /\ pc = "action_ids"
    /\ result = Pending
    /\ LET r == BuildActionIds IN
       IF r.ok
       THEN /\ action_ids' = r.val
            /\ action_children' = RemoveDeclared(action_children, DOMAIN r.val)
            /\ pc' = "tc_entity_types"
            /\ UNCHANGED result
       ELSE /\ \E e \in r.errs : Abort(e)
            /\ UNCHANGED <<action_ids, action_children>>
    /\ UNCHANGED <<entry, fragments, action_behavior, next_fragment, ns_defs, type_defs,
                   entity_attributes, entity_children, action_context_applies_to,
                   action_attributes, entity_types>>

\* ComputeTcEntityTypes without the closure: the descendants stay the children.
ComputeTcEntityTypes_Skipped ==
    /\ pc = "tc_entity_types"
    /\ result = Pending
    /\ pc' = "tc_action_ids"
    /\ UNCHANGED <<entry, fragments, action_behavior, next_fragment, ns_defs, type_defs,
                   entity_attributes, entity_children, action_context_applies_to,
                   action_children, action_attributes, entity_types, action_ids,
                   result>>

\* ComputeTcEntityTypes that enforces a DAG, as the closure of the actions does.
ComputeTcEntityTypes_Dag ==
    /\ pc = "tc_entity_types"
    /\ result = Pending
    /\ LET r == compute_tc(entity_types, TRUE) IN
       IF r.ok
       THEN entity_types' = r.val /\ pc' = "tc_action_ids" /\ UNCHANGED result
       ELSE (\E e \in r.errs : Abort(e)) /\ UNCHANGED entity_types
    /\ UNCHANGED <<entry, fragments, action_behavior, next_fragment, ns_defs, type_defs,
                   entity_attributes, entity_children, action_context_applies_to,
                   action_children, action_attributes, action_ids>>

\* from_schema_fragments: compute_tc(&mut entity_types, false).
ComputeTcEntityTypes ==
    /\ pc = "tc_entity_types"
    /\ result = Pending
    /\ LET r == compute_tc(entity_types, FALSE) IN
       IF r.ok
       THEN entity_types' = r.val /\ pc' = "tc_action_ids" /\ UNCHANGED result
       ELSE (\E e \in r.errs : Abort(e)) /\ UNCHANGED entity_types
    /\ UNCHANGED <<entry, fragments, action_behavior, next_fragment, ns_defs, type_defs,
                   entity_attributes, entity_children, action_context_applies_to,
                   action_children, action_attributes, action_ids>>

\* ComputeTcActionIds that runs the consistency check first and closes the
\* actions only when it passes.
ComputeTcActionIds_AfterCheck ==
    /\ pc = "tc_action_ids"
    /\ result = Pending
    /\ LET c == check_for_undeclared(entity_types, DOMAIN entity_children,
                                     action_ids, DOMAIN action_children)
           r == compute_tc(action_ids, TRUE) IN
       IF ~c.ok THEN (\E e \in c.errs : Abort(e)) /\ UNCHANGED action_ids
       ELSE IF r.ok
       THEN action_ids' = r.val /\ pc' = "check" /\ UNCHANGED result
       ELSE (\E e \in r.errs : Abort(e)) /\ UNCHANGED action_ids
    /\ UNCHANGED <<entry, fragments, action_behavior, next_fragment, ns_defs, type_defs,
                   entity_attributes, entity_children, action_context_applies_to,
                   action_children, action_attributes, entity_types>>

\* ComputeTcActionIds that does not enforce a DAG.
ComputeTcActionIds_NoDag ==
    /\ pc = "tc_action_ids"
    /\ result = Pending
    /\ LET r == compute_tc(action_ids, FALSE) IN
       IF r.ok
       THEN action_ids' = r.val /\ pc' = "check" /\ UNCHANGED result
       ELSE (\E e \in r.errs : Abort(e)) /\ UNCHANGED action_ids
    /\ UNCHANGED <<entry, fragments, action_behavior, next_fragment, ns_defs, type_defs,
                   entity_attributes, entity_children, action_context_applies_to,
                   action_children, action_attributes, entity_types>>

\* from_schema_fragments: compute_tc(&mut action_ids, true).
ComputeTcActionIds ==
    /\ pc = "tc_action_ids"
    /\ result = Pending
    /\ LET r == compute_tc(action_ids, TRUE) IN
       IF r.ok
       THEN action_ids' = r.val /\ pc' = "check" /\ UNCHANGED result
       ELSE (\E e \in r.errs : Abort(e)) /\ UNCHANGED action_ids
    /\ UNCHANGED <<entry, fragments, action_behavior, next_fragment, ns_defs, type_defs,
                   entity_attributes, entity_children, action_context_applies_to,
                   action_children, action_attributes, entity_types>>

\* from_schema_fragments: check_for_undeclared, then the ValidatorSchema.
CheckForUndeclared ==
    /\ pc = "check"
    /\ result = Pending
    /\ LET r == check_for_undeclared(entity_types, DOMAIN entity_children,
                                     action_ids, DOMAIN action_children) IN
       IF r.ok
       THEN /\ result' = Success([entity_types |-> entity_types,
                                  action_ids |-> action_ids])
            /\ pc' = "done"
       ELSE \E e \in r.errs : Abort(e)
    /\ UNCHANGED <<entry, fragments, action_behavior, next_fragment, ns_defs, type_defs,
                   entity_attributes, entity_children, action_context_applies_to,
                   action_children, action_attributes, entity_types, action_ids>>

Next ==
    \/ ConvertFragment
    \/ ConvertNamespaceDefinition
    \/ MergeFragments
    \/ CollectEntityTypes
    \/ CollectActionIds
    \/ ComputeTcEntityTypes
    \/ ComputeTcActionIds
    \/ CheckForUndeclared

Spec == Init /\ [][Next]_vars

(***************************************************************************)
(* What the input declares and references, read off the fragments as       *)
(* written.  Names are compared as strings: a name written in the          *)
(* namespace ns without a namespace of its own stands for ns::name.        *)
(***************************************************************************)
Succeeded == result.status = "Ok"
Failed == result.status = "Err"
Finished == result.status # "Pending"

\* The compilation got as far as the transitive closures / the consistency
\* check: no earlier step failed.
ReachedClosure == pc \in {"tc_entity_types", "tc_action_ids", "check", "done"}
ReachedActionClosure == pc \in {"tc_action_ids", "check", "done"}
ReachedCheck == pc \in {"check", "done"}

\* The namespace definitions of the input, each with its namespace string.
InputDefs ==
    {<<ns, fragments[i][ns]>> : <<i, ns>> \in
        {p \in (1..Len(fragments)) \X UNION {DOMAIN fragments[j] :
                                                j \in 1..Len(fragments)} :
           p[2] \in DOMAIN fragments[p[1]]}}

Qualified(str, ns) == IF Len(str) = 1 THEN ns \o str ELSE str

DeclaredEntityTypes ==
    UNION {{d[1] \o k : k \in DOMAIN d[2].entity_types} : d \in InputDefs}

\* <<child, parent>> for every memberOfTypes entry.
MemberOfTypesEdges ==
    UNION {UNION {{<<d[1] \o k, Qualified(p, d[1])>> :
                     p \in d[2].entity_types[k].member_of_types} :
                    k \in DOMAIN d[2].entity_types} : d \in InputDefs}

ActionString(ref, ns) ==
    IF ref.ty.some THEN Append(ref.ty.val, ref.id)
    ELSE Append(Append(ns, "Action"), ref.id)

DeclaredActions ==
    UNION {{Append(Append(d[1], "Action"), a) : a \in DOMAIN d[2].actions} :
             d \in InputDefs}

\* <<child, parent>> for every memberOf entry.
MemberOfEdges ==
    UNION {UNION {{<<Append(Append(d[1], "Action"), a), ActionString(p, d[1])>> :
                     p \in IF d[2].actions[a].member_of.some
                           THEN d[2].actions[a].member_of.val ELSE {}} :
                    a \in DOMAIN d[2].actions} : d \in InputDefs}

\* The pairs joined by a non-empty chain of R.
RECURSIVE Chains(_)
Chains(R) ==
    LET R2 == R \cup {<<p[1], q[2]>> : <<p, q>> \in {pq \in R \X R : pq[1][2] = pq[2][1]}}
    IN  IF R2 = R THEN R ELSE Chains(R2)

EntityCycleInInput == \E e \in DeclaredEntityTypes : <<e, e>> \in Chains(MemberOfTypesEdges)

ActionCycleInInput == \E a \in DeclaredActions : <<a, a>> \in Chains(MemberOfEdges)

\* The common type a reference written in ns stands for, if the input
\* declares it: its body and the namespace that declares it.
AliasOf(str, ns) ==
    {<<d[1], d[2].common_types[k]>> : <<d, k>> \in
        {p \in InputDefs \X UNION {DOMAIN x[2].common_types : x \in InputDefs} :
           /\ p[2] \in DOMAIN p[1][2].common_types
           /\ p[1][1] \o p[2] = Qualified(str, ns)}}

\* The entity type names a schema type written in ns refers to.
RECURSIVE EntityNamesWritten(_, _)
EntityNamesWritten(ty, ns) ==
    CASE ty.type = "Entity" -> {Qualified(ty.name, ns)}
      [] ty.type = "Set" -> EntityNamesWritten(ty.element, ns)
      [] ty.type = "Record" ->
            UNION {EntityNamesWritten(ty.attributes[a].ty, ns) :
                     a \in DOMAIN ty.attributes}
      [] ty.type = "TypeDef" ->
            UNION {EntityNamesWritten(al[2], al[1]) : al \in AliasOf(ty.type_name, ns)}
      [] OTHER -> {}

AppliesToOf(a) == IF a.applies_to.some THEN a.applies_to.val ELSE DefaultAppliesTo

ListOf(opt) == IF opt.some THEN opt.val ELSE {}

\* Every entity type name the input refers to: as a memberOfTypes parent,
\* inside a shape, inside a context, in principalTypes or resourceTypes.
ReferencedEntityTypes ==
    {e[2] : e \in MemberOfTypesEdges}
    \cup UNION {UNION {EntityNamesWritten(d[2].entity_types[k].shape, d[1]) :
                         k \in DOMAIN d[2].entity_types} : d \in InputDefs}
    \cup UNION {UNION {EntityNamesWritten(AppliesToOf(d[2].actions[a]).context, d[1])
                       \cup {Qualified(t, d[1]) :
                               t \in ListOf(AppliesToOf(d[2].actions[a]).principal_types)
                                     \cup ListOf(AppliesToOf(d[2].actions[a]).resource_types)} :
                         a \in DOMAIN d[2].actions} : d \in InputDefs}

UndeclaredEntityTypesInInput == ReferencedEntityTypes \ DeclaredEntityTypes

UndeclaredActionsInInput == {e[2] : e \in MemberOfEdges} \ DeclaredActions

\* The entity type names inside a Type of the compiled schema.
RECURSIVE EntityNamesIn(_)
EntityNamesIn(ty) ==
    CASE ty.tag = "Entity" -> ty.lub
      [] ty.tag = "Set" -> EntityNamesIn(ty.elem)
      [] ty.tag = "Record" ->
            UNION {EntityNamesIn(ty.attrs[a].attr_type) : a \in DOMAIN ty.attrs}
      [] OTHER -> {}

AttributeNames(attrs) == UNION {EntityNamesIn(attrs[a].attr_type) : a \in DOMAIN attrs}

ConcreteNames(spec) == {e.name : e \in {x \in spec : x.kind = "Concrete"}}

Descendants(m, k) == m[k].descendants

(***************************************************************************)
(* Claims.                                                                 *)
(***************************************************************************)

\* C1 (as stated): in a schema returned successfully, no entity type name
\* is a member of its own descendants set.
C1_NoSelfDescendant ==
    Succeeded =>
        \A name \in DOMAIN result.schema.entity_types :
            name \notin Descendants(result.schema.entity_types, name)

\* C1 (amended): in a schema returned successfully, an entity type name is a
\* member of its own descendants set exactly when it lies on a cycle of the
\* memberOfTypes relation of the input (a type that lists itself as a parent
\* included); a name on no cycle is not in its own descendants.
C1_SelfDescendantIffOnCycle ==
    Succeeded =>
        \A name \in DOMAIN result.schema.entity_types :
            name \in Descendants(result.schema.entity_types, name)
            <=> <<NameToString(name), NameToString(name)>> \in Chains(MemberOfTypesEdges)

\* A schema was returned in which one entity type is in its own descendants
\* and another one is not.
C1_Witness ==
    /\ Succeeded
    /\ \E a, b \in DOMAIN result.schema.entity_types :
          /\ a \in Descendants(result.schema.entity_types, a)
          /\ b \notin Descendants(result.schema.entity_types, b)
          /\ Descendants(result.schema.entity_types, b) # {}

\* C2: in a schema returned successfully, every entity type name inside an
\* entity type's attribute types, inside an action's context attribute types,
\* or Concrete in an action's applies_to principal or resource set is a key
\* of entity_types.
C2_ReferencedTypesDeclared ==
    Succeeded =>
        LET ets == result.schema.entity_types
            aids == result.schema.action_ids
        IN  /\ \A n \in DOMAIN ets : AttributeNames(ets[n].attributes) \subseteq DOMAIN ets
            /\ \A a \in DOMAIN aids :
                  /\ AttributeNames(aids[a].context) \subseteq DOMAIN ets
                  /\ ConcreteNames(aids[a].applies_to.principal_apply_spec)
                        \subseteq DOMAIN ets
                  /\ ConcreteNames(aids[a].applies_to.resource_apply_spec)
                        \subseteq DOMAIN ets

\* A schema was returned whose entity type has an attribute with an entity
\* reference below a set or a record, and whose action has such a context
\* attribute and Concrete principal and resource types.
C2_Witness ==
    /\ Succeeded
    /\ \E n \in DOMAIN result.schema.entity_types :
          \E a \in DOMAIN result.schema.entity_types[n].attributes :
             LET ty == result.schema.entity_types[n].attributes[a].attr_type IN
             ty.tag \in {"Set", "Record"} /\ EntityNamesIn(ty) # {}
    /\ \E x \in DOMAIN result.schema.action_ids :
          LET act == result.schema.action_ids[x] IN
          /\ \E a \in DOMAIN act.context :
                act.context[a].attr_type.tag \in {"Set", "Record"}
                /\ EntityNamesIn(act.context[a].attr_type) # {}
          /\ ConcreteNames(act.applies_to.principal_apply_spec) # {}
          /\ ConcreteNames(act.applies_to.resource_apply_spec) # {}

\* C3: in a schema returned successfully, every action id in the descendants
\* of an action is a key of action_ids, and no action id is in its own
\* descendants.
C3_ActionDescendantsDeclaredAcyclic ==
    Succeeded =>
        \A a \in DOMAIN result.schema.action_ids :
            /\ Descendants(result.schema.action_ids, a) \subseteq DOMAIN result.schema.action_ids
            /\ a \notin Descendants(result.schema.action_ids, a)

\* A schema was returned in which an action has two descendants, one of them
\* declared in another namespace.
C3_Witness ==
    /\ Succeeded
    /\ \E a \in DOMAIN result.schema.action_ids :
          /\ Cardinality(Descendants(result.schema.action_ids, a)) >= 2
          /\ \E d \in Descendants(result.schema.action_ids, a) : d.ty # a.ty

Transitive(m) ==
    \A a \in DOMAIN m : \A b \in Descendants(m, a) \cap DOMAIN m :
        Descendants(m, b) \subseteq Descendants(m, a)

\* C4: in a schema returned successfully the descendants relation is
\* transitively closed, for entity types and for actions: if b is in
\* descendants(a) and c in descendants(b), then c is in descendants(a).
C4_DescendantsTransitive ==
    Succeeded =>
        /\ Transitive(result.schema.entity_types)
        /\ Transitive(result.schema.action_ids)

\* A schema was returned with an entity type and an action that each have a
\* descendant which is no child of theirs in the input.
C4_Witness ==
    /\ Succeeded
    /\ \E a \in DOMAIN result.schema.entity_types :
          \E c \in Descendants(result.schema.entity_types, a) :
             <<NameToString(c), NameToString(a)>> \notin MemberOfTypesEdges
    /\ \E a \in DOMAIN result.schema.action_ids :
          \E c \in Descendants(result.schema.action_ids, a) :
             <<EuidToString(c), EuidToString(a)>> \notin MemberOfEdges

\* C5: in a schema returned successfully, descendants(P) of an entity type P
\* is exactly the set of declared entity types from which P is reached by a
\* non-empty chain of memberOfTypes entries, over all namespaces and all
\* fragments.
C5_DescendantsAreMembers ==
    Succeeded =>
        \A p \in DOMAIN result.schema.entity_types :
            {NameToString(d) : d \in Descendants(result.schema.entity_types, p)}
            = {e \in DeclaredEntityTypes :
                 <<e, NameToString(p)>> \in Chains(MemberOfTypesEdges)}

\* A schema was returned in which an entity type of the namespace Foo has a
\* descendant declared in the root namespace by another fragment, and one of
\* its own namespace.
C5_Witness ==
    /\ Succeeded
    /\ \E p \in DOMAIN result.schema.entity_types :
          /\ p.path = Foo /\ p.id = "B"
          /\ \E d \in Descendants(result.schema.entity_types, p) : d.path = Root
          /\ \E d \in Descendants(result.schema.entity_types, p) : d.path = Foo /\ d # p

CycleInActionHierarchy == Error(Err("CycleInActionHierarchy", {}))

\* C6: if the memberOf relation of the declared actions has a cycle of any
\* length (an action that is its own parent included) and no earlier phase
\* failed, the compilation stops at the closure of the actions and fails
\* with CycleInActionHierarchy.
C6_ActionCycleRejected ==
    (ReachedActionClosure /\ ActionCycleInInput) =>
        /\ pc = "tc_action_ids"
        /\ Finished => result = CycleInActionHierarchy

\* The compilation failed with CycleInActionHierarchy on an input whose
\* action cycle has two actions of different namespaces and no action that
\* is its own parent.
C6_Witness ==
    /\ result = CycleInActionHierarchy
    /\ \E e \in MemberOfEdges :
          /\ <<e[2], e[1]>> \in Chains(MemberOfEdges)
          /\ Len(e[1]) # Len(e[2])
    /\ \A e \in MemberOfEdges : e[1] # e[2]

\* C7: a cycle in the memberOfTypes relation of the entity types is not an
\* error: the closure of the entity types never fails, and when the input
\* has no other defect the compilation succeeds.
C7_EntityCycleAccepted ==
    EntityCycleInInput =>
        /\ pc = "tc_entity_types" => result = Pending
        /\ (/\ Finished
            /\ ReachedClosure
            /\ ~ActionCycleInInput
            /\ UndeclaredEntityTypesInInput = {}
            /\ UndeclaredActionsInInput = {}) => Succeeded

\* A schema was returned for an input in which two entity types are each
\* other's parent.
C7_Witness ==
    /\ Succeeded
    /\ \E e \in MemberOfTypesEdges : e[1] # e[2] /\ <<e[2], e[1]>> \in MemberOfTypesEdges

\* C8: if the compilation reaches the consistency check and the input refers
\* to an entity type that is not declared, it fails with one
\* UndeclaredEntityTypes error whose set is exactly the undeclared names
\* referred to (as memberOfTypes parent, inside an entity attribute type,
\* inside an action context, as Concrete principal or resource type);
\* declared names do not appear in it.
C8_UndeclaredEntityTypesReported ==
    (Finished /\ ReachedCheck /\ UndeclaredEntityTypesInInput # {}) =>
        result = Error(Err("UndeclaredEntityTypes", UndeclaredEntityTypesInInput))

\* The check failed with UndeclaredEntityTypes naming a memberOfTypes parent
\* and a type written inside a context only, on an input that also refers to
\* a declared entity type and leaves the resource types unspecified.
C8_Witness ==
    /\ pc = "check"
    /\ Failed
    /\ result.err.kind = "UndeclaredEntityTypes"
    /\ result.err.info = {<<"Foo", "B">>, <<"Bar", "U">>}
    /\ <<"Foo", "A">> \in ReferencedEntityTypes \cap DeclaredEntityTypes
    /\ \E d \in InputDefs :
          /\ \A k \in DOMAIN d[2].entity_types :
                EntityNamesWritten(d[2].entity_types[k].shape, d[1]) = {}
          /\ \E a \in DOMAIN d[2].actions :
                /\ <<"Bar", "U">> \in EntityNamesWritten(AppliesToOf(d[2].actions[a]).context, d[1])
                /\ AppliesToOf(d[2].actions[a]).context.attributes["f"].ty.type # "Entity"
                /\ AppliesToOf(d[2].actions[a]).principal_types = Some({<<"A">>})
                /\ ~AppliesToOf(d[2].actions[a]).resource_types.some

\* C9: if the compilation reaches the consistency check, every entity type
\* referred to is declared and some action names a parent that is not
\* declared, it fails with UndeclaredActions whose set is exactly the
\* undeclared parent ids; a parent declared in another fragment or namespace
\* is not in it.
C9_UndeclaredActionsReported ==
    (/\ Finished
     /\ ReachedCheck
     /\ UndeclaredEntityTypesInInput = {}
     /\ UndeclaredActionsInInput # {}) =>
        result = Error(Err("UndeclaredActions", UndeclaredActionsInInput))

\* The check failed with UndeclaredActions on an input in which an action
\* has an undeclared parent and a parent declared by another fragment.
C9_Witness ==
    /\ pc = "check"
    /\ Failed
    /\ result.err.kind = "UndeclaredActions"
    /\ <<<<"Action", "x">>, <<"Action", "y">>>> \in MemberOfEdges
    /\ <<"Action", "y">> \in DeclaredActions
    /\ <<"Action", "y">> \notin result.err.info
    /\ <<<<"Action", "x">>, <<"Foo", "Action", "x">>>> \in MemberOfEdges
    /\ <<"Foo", "Action", "x">> \in result.err.info

\* C10: if the input has both an undeclared entity type and an undeclared
\* parent action, the consistency check reports UndeclaredEntityTypes and
\* not UndeclaredActions.
C10_EntityTypesReportedFirst ==
    (/\ Finished
     /\ ReachedCheck
     /\ UndeclaredEntityTypesInInput # {}
     /\ UndeclaredActionsInInput # {}) =>
        /\ Failed
        /\ result.err.kind = "UndeclaredEntityTypes"

\* The check failed on an input with an undeclared entity type and an
\* undeclared parent action.
C10_Witness ==
    /\ pc = "check"
    /\ Failed
    /\ UndeclaredEntityTypesInInput # {}
    /\ UndeclaredActionsInInput # {}
    /\ result.err.kind \in {"UndeclaredEntityTypes", "UndeclaredActions"}

\* The actions of the input, each with the namespace string of its definition.
InputActions ==
    UNION {{<<d[1], d[2].actions[a]>> : a \in DOMAIN d[2].actions} : d \in InputDefs}

HasAttributesField == \E a \in InputActions : a[2].attributes.some

HasMemberOf == \E a \in InputActions : a[2].member_of.some /\ a[2].member_of.val # {}

NoActionAttributes ==
    \A a \in DOMAIN result.schema.action_ids :
        result.schema.action_ids[a].attributes = EmptyMap

WithAttributes(def) == {a \in DOMAIN def.actions : def.actions[a].attributes.some}

DeclaresActionType(def) == <<"Action">> \in DOMAIN def.entity_types

WellFormedNamespace(ns) == \A i \in 1..Len(ns) : ns[i] # ""

ActionEntityAttributes(def) ==
    Err("ActionEntityAttributes", {<<a>> : a \in WithAttributes(def)})

\* What C12 says of the definition def compiled under the namespace ns.
AttributesRejected(ns, def) ==
    /\ from_namespace_definition(Some(ns), def, "ProhibitAttributes")
         = Fail({ActionEntityAttributes(def)})
    /\ LET r == from_namespace_definition(Some(ns), def, "PermitAttributes") IN
       r.ok \/ \A e \in r.errs : e.kind # "ActionEntityAttributes"
    /\ (pc = "convert" /\ Failed /\ DOMAIN fragments[next_fragment] = {ns}) =>
          IF action_behavior = "ProhibitAttributes"
          THEN result = Error(ActionEntityAttributes(def))
          ELSE result.err.kind # "ActionEntityAttributes"

\* C12 (as stated): under ProhibitAttributes, compiling a namespace
\* definition in which an action has an attributes field (even an empty one)
\* and no entity type is named Action fails with ActionEntityAttributes
\* listing exactly the actions of the definition that have the field; under
\* PermitAttributes the same input does not give this error.
C12_AttributesRejected ==
    \A d \in InputDefs :
        (WithAttributes(d[2]) # {} /\ ~DeclaresActionType(d[2])) =>
            AttributesRejected(d[1], d[2])

\* C12 (amended): the same, for a namespace definition whose namespace
\* string is well-formed; an ill-formed namespace is reported first, as
\* NamespaceParseError.
C12_AttributesRejectedInNamespace ==
    \A d \in InputDefs :
        (/\ WellFormedNamespace(d[1])
         /\ WithAttributes(d[2]) # {}
         /\ ~DeclaresActionType(d[2])) =>
            AttributesRejected(d[1], d[2])

\* The conversion failed with ActionEntityAttributes naming x alone, whose
\* attributes field is empty, for a definition that also declares y without
\* the field.
C12_Witness ==
    /\ pc = "convert"
    /\ result = Error(Err("ActionEntityAttributes", {<<"x">>}))
    /\ \E d \in InputDefs :
          /\ DOMAIN d[2].actions = {"x", "y"}
          /\ d[2].actions["x"].attributes = Some(EmptyMap)
          /\ ~d[2].actions["y"].attributes.some

ActionEntityTypeDeclared == Err("ActionEntityTypeDeclared", {})

\* C13: a namespace definition that declares an entity type named Action is
\* rejected with ActionEntityTypeDeclared, whatever its well-formed namespace
\* and whichever ActionBehavior; so no schema returned successfully has an
\* entity type whose base name is Action.
C13_ActionTypeRejected ==
    /\ \A d \in InputDefs :
          (WellFormedNamespace(d[1]) /\ DeclaresActionType(d[2])) =>
             /\ \A b \in {"ProhibitAttributes", "PermitAttributes"} :
                   from_namespace_definition(Some(d[1]), d[2], b)
                     = Fail({ActionEntityTypeDeclared})
             /\ (pc = "convert" /\ Failed /\ DOMAIN fragments[next_fragment] = {d[1]})
                   => result = Error(ActionEntityTypeDeclared)
    /\ Succeeded =>
          \A name \in DOMAIN result.schema.entity_types : name.id # "Action"

\* The conversion failed with ActionEntityTypeDeclared for a definition of
\* the namespace Foo that also has an action with an attributes field,
\* under ProhibitAttributes.
C13_Witness ==
    /\ pc = "convert"
    /\ result = Error(ActionEntityTypeDeclared)
    /\ action_behavior = "ProhibitAttributes"
    /\ \E d \in InputDefs :
          d[1] = Foo /\ DeclaresActionType(d[2]) /\ WithAttributes(d[2]) # {}

\* The Name a fully qualified name string stands for.
NameOf(str) == [path |-> SubSeq(str, 1, Len(str) - 1), id |-> str[Len(str)]]

\* The Type a schema type written in the namespace ns denotes, a reference
\* to an alias denoting what the body of the alias denotes in the namespace
\* that declares it (and no Type when nothing declares the alias).
RECURSIVE TypeWritten(_, _)
TypeWritten(ty, ns) ==
    CASE ty.type = "Long" -> [tag |-> "Long"]
      [] ty.type = "String" -> [tag |-> "String"]
      [] ty.type = "Boolean" -> [tag |-> "Bool"]
      [] ty.type = "Set" -> [tag |-> "Set", elem |-> TypeWritten(ty.element, ns)]
      [] ty.type = "Record" ->
            [tag |-> "Record",
             attrs |-> [a \in DOMAIN ty.attributes |->
                          [attr_type |-> TypeWritten(ty.attributes[a].ty, ns),
                           is_required |-> ty.attributes[a].required]]]
      [] ty.type = "Entity" -> [tag |-> "Entity", lub |-> {NameOf(Qualified(ty.name, ns))}]
      [] ty.type = "TypeDef" ->
            IF AliasOf(ty.type_name, ns) = {} THEN [tag |-> "Undeclared"]
            ELSE LET al == CHOOSE x \in AliasOf(ty.type_name, ns) : TRUE IN
                 TypeWritten(al[2], al[1])

\* The alias references inside a schema type, as written.
RECURSIVE AliasRefs(_)
AliasRefs(ty) ==
    CASE ty.type = "TypeDef" -> {ty.type_name}
      [] ty.type = "Set" -> AliasRefs(ty.element)
      [] ty.type = "Record" ->
            UNION {AliasRefs(ty.attributes[a].ty) : a \in DOMAIN ty.attributes}
      [] OTHER -> {}

\* The attributes of a shape or context written as a record.
WrittenAttributes(ty) == IF ty.type = "Record" THEN ty.attributes ELSE EmptyMap

\* The attributes map holds, for every attribute of the written record whose
\* type refers to an alias, what the alias stands for.
AliasesResolved(attributes, written, ns) ==
    \A a \in DOMAIN WrittenAttributes(written) :
        AliasRefs(written.attributes[a].ty) # {} =>
            /\ a \in DOMAIN attributes
            /\ attributes[a].attr_type = TypeWritten(written.attributes[a].ty, ns)

\* C14: in a schema returned successfully, an entity attribute or an action
\* context attribute declared as a reference to an alias has the type the
\* body of the alias resolves to, the alias being declared in the same
\* namespace definition, in another namespace of the fragment (qualified
\* reference) or in another fragment of the same namespace (unqualified).
C14_AliasResolved ==
    Succeeded =>
        \A d \in InputDefs :
            /\ \A k \in DOMAIN d[2].entity_types :
                  AliasesResolved(result.schema.entity_types[NameOf(d[1] \o k)].attributes,
                                  d[2].entity_types[k].shape, d[1])
            /\ \A a \in DOMAIN d[2].actions :
                  AliasesResolved(
                      result.schema.action_ids[EntityUID(Name("Action", d[1]), a)].context,
                      AppliesToOf(d[2].actions[a]).context, d[1])

\* A schema was returned in which attributes of Foo::A refer to the alias T
\* of their own definition and to Bar::T of another namespace, with unlike
\* bodies, and the context attribute of x refers to U, which fragment 2
\* declares in Foo.
C14_Witness ==
    /\ Succeeded
    /\ Len(fragments) = 2
    /\ DOMAIN fragments[1] = {Foo, <<"Bar">>}
    /\ DOMAIN fragments[1][Foo].common_types = {<<"T">>}
    /\ fragments[1][Foo].entity_types[<<"A">>].shape
         = RecordOf(("f" :> Attr(TypeRef(<<"T">>), FALSE))
                    @@ ("h" :> Attr(TypeRef(<<"Bar", "T">>), TRUE)))
    /\ result.schema.entity_types[Name("A", Foo)].attributes["f"].attr_type
         = [tag |-> "Set", elem |-> [tag |-> "Entity", lub |-> {Name("A", Foo)}]]
    /\ result.schema.entity_types[Name("A", Foo)].attributes["h"].attr_type.tag = "Record"
    /\ fragments[1][Foo].actions["x"].applies_to.val.context = RecF(TypeRef(<<"U">>))
    /\ DOMAIN fragments[2][Foo].common_types = {<<"U">>}
    /\ result.schema.action_ids[EntityUID(Name("Action", Foo), "x")].context["f"].attr_type
         = [tag |-> "Long"]

\* The alias references written in the bodies of the aliases of def.
AliasBodyRefs(def) ==
    UNION {AliasRefs(def.common_types[k]) : k \in DOMAIN def.common_types}

\* The definition def of the namespace ns has no defect that is reported
\* before its alias bodies are resolved: the namespace is well-formed, the
\* action behavior check passes, and no alias has a builtin or ill-formed
\* name.
SoundBeforeAliases(ns, def) ==
    /\ WellFormedNamespace(ns)
    /\ ~DeclaresActionType(def)
    /\ WithAttributes(def) = {}
    /\ \A k \in DOMAIN def.common_types :
          k[1] \notin {"", "String", "Long", "Boolean", "Set", "Record", "Entity",
                       "Extension"}

UndeclaredCommonTypes(def) ==
    {Err("UndeclaredCommonType", {r}) : r \in AliasBodyRefs(def)}

\* C15: a namespace definition in which the body of an alias holds a
\* reference to another alias, at any depth and even to an alias of the same
\* definition, fails to compile with UndeclaredCommonType; the compilation
\* of the schema never gets past the conversion of its fragment.
C15_AliasInAliasRejected ==
    \A i \in 1..Len(fragments) :
        \A ns \in DOMAIN fragments[i] :
            (/\ SoundBeforeAliases(ns, fragments[i][ns])
             /\ AliasBodyRefs(fragments[i][ns]) # {}) =>
                /\ \A b \in {"ProhibitAttributes", "PermitAttributes"} :
                      from_namespace_definition(Some(ns), fragments[i][ns], b)
                        = Fail(UndeclaredCommonTypes(fragments[i][ns]))
                /\ pc = "convert" /\ next_fragment <= i
                /\ (/\ Failed
                    /\ next_fragment = i
                    /\ \A o \in DOMAIN fragments[i] \ {ns} :
                          from_namespace_definition(Some(o), fragments[i][o],
                                                    action_behavior).ok)
                      => result.err \in UndeclaredCommonTypes(fragments[i][ns])

\* The conversion failed with UndeclaredCommonType naming W, to which the
\* alias T of Foo refers while Foo itself declares W.
C15_Witness ==
    /\ pc = "convert"
    /\ Foo \in DOMAIN fragments[1]
    /\ DOMAIN fragments[1][Foo].common_types = {<<"T">>, <<"W">>}
    /\ fragments[1][Foo].common_types[<<"T">>] = TypeRef(<<"W">>)
    /\ result = Error(Err("UndeclaredCommonType", {<<"W">>}))

\* The same for a reference inside a set inside a record, to an alias that
\* Bar declares in the same fragment.
C15_WitnessNested ==
    /\ pc = "convert"
    /\ DOMAIN fragments[1] = {Foo, <<"Bar">>}
    /\ fragments[1][Foo].common_types
         = (<<"T">> :> RecF(SetOf(TypeRef(<<"Bar", "T">>))))
    /\ <<"T">> \in DOMAIN fragments[1][<<"Bar">>].common_types
    /\ result = Error(Err("UndeclaredCommonType", {<<"Bar", "T">>}))

\* Every alias a schema type written in ns refers to is declared.
AliasesDeclared(ty, ns) == \A r \in AliasRefs(ty) : AliasOf(r, ns) # {}

\* The shapes and the contexts of the input, each with the namespace it is
\* written in.
InputShapes ==
    {<<d[1], d[2].entity_types[k].shape>> : <<d, k>> \in
        {p \in InputDefs \X UNION {DOMAIN x[2].entity_types : x \in InputDefs} :
           p[2] \in DOMAIN p[1][2].entity_types}}

InputContexts ==
    {<<a[1], AppliesToOf(a[2]).context>> : a \in InputActions}

NotRecord(s) == TypeWritten(s[2], s[1]).tag # "Record"

ContextOrShapeNotRecord == Err("ContextOrShapeNotRecord", {})

\* The definitions were converted and merged.
Merged == pc \notin {"convert", "merge"}

\* C16: once the definitions are merged, a shape that resolves to a type
\* that is not a record stops the compilation at the entity types with
\* ContextOrShapeNotRecord, and a context that does so stops it at the
\* actions with the same error (the aliases referred to being declared);
\* in a schema returned successfully the attributes of an entity type and
\* the context of an action are those of the record their shape or context
\* resolves to, directly or through an alias.
C16_ShapeAndContextAreRecords ==
    /\ (/\ Merged
        /\ \A s \in InputShapes : AliasesDeclared(s[2], s[1])
        /\ \E s \in InputShapes : NotRecord(s)) =>
           /\ pc = "entity_types"
           /\ Failed => result = Error(ContextOrShapeNotRecord)
    /\ (/\ Merged
        /\ \A s \in InputShapes : AliasesDeclared(s[2], s[1]) /\ ~NotRecord(s)
        /\ \A s \in InputContexts : AliasesDeclared(s[2], s[1])
        /\ \E s \in InputContexts : NotRecord(s)) =>
           /\ pc \in {"entity_types", "action_ids"}
           /\ Failed => pc = "action_ids" /\ result = Error(ContextOrShapeNotRecord)
    /\ Succeeded =>
          \A d \in InputDefs :
             /\ \A k \in DOMAIN d[2].entity_types :
                   result.schema.entity_types[NameOf(d[1] \o k)].attributes
                     = TypeWritten(d[2].entity_types[k].shape, d[1]).attrs
             /\ \A a \in DOMAIN d[2].actions :
                   result.schema.action_ids[EntityUID(Name("Action", d[1]), a)].context
                     = TypeWritten(AppliesToOf(d[2].actions[a]).context, d[1]).attrs

\* The compilation failed with ContextOrShapeNotRecord at the actions: the
\* context of x is a reference to the alias T, whose body is Long, while
\* the shape of A is a reference to Bar::T, whose body is a record.
C16_Witness ==
    /\ pc = "action_ids"
    /\ result = Error(ContextOrShapeNotRecord)
    /\ DOMAIN fragments[1] = {Foo, <<"Bar">>}
    /\ fragments[1][Foo].common_types = (<<"T">> :> LongType)
    /\ fragments[1][Foo].actions["x"].applies_to.val.context = TypeRef(<<"T">>)
    /\ fragments[1][Foo].entity_types[<<"A">>].shape = TypeRef(<<"Bar", "T">>)
    /\ entity_types[Name("A", Foo)].attributes = ("g" :> AttributeType([tag |-> "Long"], TRUE))

\* A schema was returned in which the attributes of A are those of the
\* record that the alias T, the shape of A, stands for.
C16_WitnessRecord ==
    /\ Succeeded
    /\ DOMAIN fragments[1] = {Foo, <<"Bar">>}
    /\ fragments[1][Foo].entity_types[<<"A">>].shape = TypeRef(<<"T">>)
    /\ result.schema.entity_types[Name("A", Foo)].attributes
         = ("g" :> AttributeType([tag |-> "Long"], TRUE))

\* The declarations of the input: a fragment and a namespace string of it.
Declarations ==
    {p \in (1..Len(fragments)) \X UNION {DOMAIN fragments[j] : j \in 1..Len(fragments)} :
       p[2] \in DOMAIN fragments[p[1]]}

DefOf(p) == fragments[p[1]][p[2]]

\* The aliases of def that carry a builtin type name.
BuiltinAliases(def) ==
    DOMAIN def.common_types
    \cap {<<"String">>, <<"Long">>, <<"Boolean">>, <<"Set">>, <<"Record">>,
          <<"Entity">>, <<"Extension">>}

DuplicateCommonTypes(names) == {Err("DuplicateCommonType", {n}) : n \in names}

\* The fully qualified alias names that two declarations both declare.
DuplicateAliases ==
    {p[2] \o k : <<p, k>> \in
        {x \in Declarations \X UNION {DOMAIN DefOf(q).common_types : q \in Declarations} :
           /\ x[2] \in DOMAIN DefOf(x[1]).common_types
           /\ \E q \in Declarations \ {x[1]} :
                 \E k2 \in DOMAIN DefOf(q).common_types : q[2] \o k2 = x[1][2] \o x[2]}}

\* The fully qualified entity type names two declarations both declare.
DuplicateEntityTypes ==
    {p[2] \o k : <<p, k>> \in
        {x \in Declarations \X UNION {DOMAIN DefOf(q).entity_types : q \in Declarations} :
           /\ x[2] \in DOMAIN DefOf(x[1]).entity_types
           /\ \E q \in Declarations \ {x[1]} :
                 \E k2 \in DOMAIN DefOf(q).entity_types : q[2] \o k2 = x[1][2] \o x[2]}}

\* The action ids two declarations both declare, as strings.
DuplicateActions ==
    {p[2] \o <<"Action", a>> : <<p, a>> \in
        {x \in Declarations \X UNION {DOMAIN DefOf(q).actions : q \in Declarations} :
           /\ x[2] \in DOMAIN DefOf(x[1]).actions
           /\ \E q \in Declarations \ {x[1]} :
                 q[2] = x[1][2] /\ x[2] \in DOMAIN DefOf(q).actions}}

\* Every definition of the input was converted.
ConvertedAll == pc # "convert"

\* C17: a namespace definition with an alias named String, Long, Boolean,
\* Set, Record, Entity or Extension fails to compile with
\* DuplicateCommonType naming the alias; and when two declarations of the
\* fragments declare the same fully qualified alias name, with identical
\* bodies or not, the merge fails with DuplicateCommonType naming it.  So a
\* schema returned successfully comes from aliases of distinct fully
\* qualified names, none of them builtin.
C17_AliasNamesDistinctNotBuiltin ==
    /\ \A p \in Declarations :
          (/\ WellFormedNamespace(p[2])
           /\ ~DeclaresActionType(DefOf(p))
           /\ WithAttributes(DefOf(p)) = {}
           /\ AliasBodyRefs(DefOf(p)) = {}
           /\ BuiltinAliases(DefOf(p)) # {}) =>
              /\ \A b \in {"ProhibitAttributes", "PermitAttributes"} :
                    from_namespace_definition(Some(p[2]), DefOf(p), b)
                      = Fail(DuplicateCommonTypes(BuiltinAliases(DefOf(p))))
              /\ pc = "convert" /\ next_fragment <= p[1]
              /\ (/\ Failed
                  /\ next_fragment = p[1]
                  /\ \A o \in DOMAIN fragments[p[1]] \ {p[2]} :
                        from_namespace_definition(Some(o), fragments[p[1]][o],
                                                  action_behavior).ok)
                    => result.err \in DuplicateCommonTypes(BuiltinAliases(DefOf(p)))
    /\ (/\ ConvertedAll
        /\ DuplicateAliases # {}
        /\ DuplicateEntityTypes = {}
        /\ DuplicateActions = {}) =>
           /\ pc = "merge"
           /\ Failed => result.err \in DuplicateCommonTypes(DuplicateAliases)
    /\ Succeeded =>
          /\ DuplicateAliases = {}
          /\ \A p \in Declarations : BuiltinAliases(DefOf(p)) = {}

\* The merge failed with DuplicateCommonType naming Foo::T, which both
\* fragments declare in Foo with the same body.
C17_Witness ==
    /\ pc = "merge"
    /\ result = Error(Err("DuplicateCommonType", {<<"Foo", "T">>}))
    /\ fragments[1][Foo].common_types = (<<"T">> :> RecG)
    /\ fragments[2][Foo].common_types = (<<"T">> :> RecG)

\* The conversion failed with DuplicateCommonType naming the alias Record
\* that Bar declares.
C17_WitnessBuiltin ==
    /\ pc = "convert"
    /\ result = Error(Err("DuplicateCommonType", {<<"Record">>}))
    /\ <<"Bar">> \in DOMAIN fragments[1]
    /\ DOMAIN fragments[1][<<"Bar">>].common_types = {<<"Record">>}

DuplicateEntityTypeErrors == {Err("DuplicateEntityType", {n}) : n \in DuplicateEntityTypes}

DuplicateActionErrors == {Err("DuplicateAction", {n}) : n \in DuplicateActions}

MergeFailed == pc = "merge" /\ Failed

\* C18 (as stated): the merge fails with DuplicateEntityType exactly when
\* two declarations have the same fully qualified entity type name, and
\* with DuplicateAction exactly when two declarations have the same fully
\* qualified action id.
C18_DuplicatesRejectedExactly ==
    /\ (ConvertedAll /\ DuplicateEntityTypes # {}) =>
           /\ pc = "merge"
           /\ Failed => result.err.kind = "DuplicateEntityType"
    /\ (ConvertedAll /\ DuplicateActions # {}) =>
           /\ pc = "merge"
           /\ Failed => result.err.kind = "DuplicateAction"
    /\ (MergeFailed /\ result.err.kind = "DuplicateEntityType") =>
           DuplicateEntityTypes # {}
    /\ (MergeFailed /\ result.err.kind = "DuplicateAction") =>
           DuplicateActions # {}

\* C18 (amended): the merge fails exactly when two declarations have the
\* same fully qualified alias, entity type or action name; the error is
\* DuplicateEntityType only when an entity type is declared twice and
\* DuplicateAction only when an action is, each naming such a duplicate,
\* and it is that error when nothing of another kind is declared twice.
\* The same base name declared in different namespaces is no duplicate:
\* a schema returned successfully has one entry for each.
C18_DuplicatesRejected ==
    /\ (ConvertedAll /\ DuplicateAliases \cup DuplicateEntityTypes \cup DuplicateActions # {})
          => pc = "merge"
    /\ MergeFailed =>
          /\ result.err \in DuplicateCommonTypes(DuplicateAliases)
                             \cup DuplicateEntityTypeErrors \cup DuplicateActionErrors
          /\ (DuplicateAliases = {} /\ DuplicateActions = {})
                => result.err \in DuplicateEntityTypeErrors
          /\ (DuplicateAliases = {} /\ DuplicateEntityTypes = {})
                => result.err \in DuplicateActionErrors
    /\ Succeeded =>
          /\ {NameToString(n) : n \in DOMAIN result.schema.entity_types}
               = DeclaredEntityTypes
          /\ Cardinality(DOMAIN result.schema.entity_types)
               = Cardinality(DeclaredEntityTypes)
          /\ {EuidToString(n) : n \in DOMAIN result.schema.action_ids} = DeclaredActions
          /\ Cardinality(DOMAIN result.schema.action_ids) = Cardinality(DeclaredActions)

\* The merge failed with DuplicateEntityType naming Foo::A, which fragments
\* 1 and 2 declare, while the root namespace declares A and x as well, to
\* no error.
C18_Witness ==
    /\ MergeFailed
    /\ result = Error(Err("DuplicateEntityType", {<<"Foo", "A">>}))
    /\ Len(fragments) = 3
    /\ <<"A">> \in DOMAIN fragments[1][Root].entity_types
    /\ "x" \in DOMAIN fragments[1][Root].actions
    /\ "x" \in DOMAIN fragments[1][Foo].actions
    /\ DuplicateActions = {}

\* A schema was returned with the entries A and Foo::A, and x in both
\* namespaces.
C18_WitnessDistinct ==
    /\ Succeeded
    /\ Len(fragments) = 3
    /\ {Name("A", Root), Name("A", Foo)} \subseteq DOMAIN result.schema.entity_types
    /\ {EntityUID(Name("Action", Root), "x"), EntityUID(Name("Action", Foo), "x")}
         \subseteq DOMAIN result.schema.action_ids

\* The merge failed with DuplicateEntityType although the action x is
\* declared twice in Foo as well.
C18_WitnessBoth ==
    /\ MergeFailed
    /\ result.err.kind = "DuplicateEntityType"
    /\ DuplicateActions # {}

\* The applies_to set that a principalTypes or resourceTypes list written in
\* the namespace ns stands for.
AppliesToWritten(types, ns) ==
    IF ~types.some THEN {Unspecified}
    ELSE {Concrete(NameOf(Qualified(t, ns))) : t \in types.val}

\* C19: in a schema returned successfully, the principal (resource) set of
\* an action is exactly {Unspecified} when its principalTypes
\* (resourceTypes), or its whole appliesTo, is omitted; when the list is
\* given the set holds the Concrete entry of every listed name, qualified,
\* and nothing else, so never Unspecified, and it is empty for the empty
\* list.
C19_AppliesToSets ==
    /\ \A a \in InputActions :
          \A types \in {AppliesToOf(a[2]).principal_types,
                         AppliesToOf(a[2]).resource_types} :
             (WellFormedNamespace(a[1])
              /\ \A t \in ListOf(types) : \A i \in 1..Len(t) : t[i] # "") =>
                 parse_apply_spec_type_list(types, a[1])
                   = Ok(AppliesToWritten(types, a[1]))
    /\ Succeeded =>
          \A p \in Declarations :
             \A a \in DOMAIN DefOf(p).actions :
                LET spec == result.schema.action_ids[
                                EntityUID(Name("Action", p[2]), a)].applies_to
                    written == AppliesToOf(DefOf(p).actions[a])
                IN  /\ spec.principal_apply_spec
                         = AppliesToWritten(written.principal_types, p[2])
                    /\ spec.resource_apply_spec
                         = AppliesToWritten(written.resource_types, p[2])
                    /\ ~written.principal_types.some
                         => spec.principal_apply_spec = {Unspecified}
                    /\ written.resource_types.some
                         => \A e \in spec.resource_apply_spec : e.kind = "Concrete"

\* A schema was returned in which Foo::Action::"x" has no principal (empty
\* list) and the one resource Foo::A (listed as A and as Foo::A), while
\* Action::"x", without appliesTo, has the principal and the resource
\* Unspecified.
C19_Witness ==
    /\ Succeeded
    /\ DOMAIN fragments[1] = {Root, Foo}
    /\ ~fragments[1][Root].actions["x"].applies_to.some
    /\ fragments[1][Foo].actions["x"].applies_to
         = Some([principal_types |-> Some({}),
                 resource_types |-> Some({<<"A">>, <<"Foo", "A">>}),
                 context |-> DefaultRecord])
    /\ result.schema.action_ids[EntityUID(Name("Action", Foo), "x")].applies_to
         = ValidatorApplySpec({}, {Concrete(Name("A", Foo))})
    /\ result.schema.action_ids[EntityUID(Name("Action", Root), "x")].applies_to
         = ValidatorApplySpec({Unspecified}, {Unspecified})

\* The Name the qualification rule gives a name string written in the
\* namespace ns.
QualifiedName(str, ns) ==
    IF Len(str) = 1 /\ ns # <<>> THEN [path |-> ns, id |-> str[1]]
    ELSE [path |-> SubSeq(str, 1, Len(str) - 1), id |-> str[Len(str)]]

\* The entity type names of the Entity references inside a schema type, as
\* written.
RECURSIVE EntityRefsWritten(_)
EntityRefsWritten(ty) ==
    CASE ty.type = "Entity" -> {ty.name}
      [] ty.type = "Set" -> EntityRefsWritten(ty.element)
      [] ty.type = "Record" ->
            UNION {EntityRefsWritten(ty.attributes[a].ty) : a \in DOMAIN ty.attributes}
      [] OTHER -> {}

\* The entity type names a definition writes in memberOfTypes, in Entity
\* references (of shapes, contexts and alias bodies) and in appliesTo lists.
NamesWritten(def) ==
    UNION ({def.entity_types[k].member_of_types
              \cup EntityRefsWritten(def.entity_types[k].shape) :
                k \in DOMAIN def.entity_types}
           \cup {EntityRefsWritten(def.common_types[k]) : k \in DOMAIN def.common_types}
           \cup {ListOf(AppliesToOf(def.actions[a]).principal_types)
                   \cup ListOf(AppliesToOf(def.actions[a]).resource_types)
                   \cup EntityRefsWritten(AppliesToOf(def.actions[a]).context) :
                     a \in DOMAIN def.actions})

WellFormedName(str) == \A i \in 1..Len(str) : str[i] # ""

\* C20: an entity type name written in memberOfTypes, in an Entity reference
\* or in an appliesTo list gets the enclosing namespace when it has none of
\* its own and the enclosing namespace is not empty, and is left as written
\* otherwise; qualifying the result again changes nothing.  A schema
\* returned successfully holds the names so qualified: as ancestors, inside
\* attributes and in the applies_to sets.
C20_NamesQualified ==
    /\ \A p \in Declarations :
          \A str \in NamesWritten(DefOf(p)) :
             (WellFormedNamespace(p[2]) /\ WellFormedName(str)) =>
                LET once == parse_possibly_qualified_name_with_default_namespace(
                                str, p[2]) IN
                /\ once = Ok(QualifiedName(str, p[2]))
                /\ Len(str) > 1 => NameToString(once.val) = str
                /\ parse_possibly_qualified_name_with_default_namespace(
                       NameToString(once.val), p[2]) = once
    /\ Succeeded =>
          \A p \in Declarations :
             /\ \A k \in DOMAIN DefOf(p).entity_types :
                   /\ \A parent \in DefOf(p).entity_types[k].member_of_types :
                         NameOf(p[2] \o k) \in
                            result.schema.entity_types[QualifiedName(parent, p[2])].descendants
                   /\ \A r \in EntityRefsWritten(DefOf(p).entity_types[k].shape) :
                         QualifiedName(r, p[2]) \in
                            AttributeNames(result.schema.entity_types[
                                               NameOf(p[2] \o k)].attributes)
             /\ \A a \in DOMAIN DefOf(p).actions :
                   LET aid == result.schema.action_ids[EntityUID(Name("Action", p[2]), a)]
                       written == AppliesToOf(DefOf(p).actions[a]) IN
                   /\ \A r \in EntityRefsWritten(written.context) :
                         QualifiedName(r, p[2]) \in AttributeNames(aid.context)
                   /\ written.principal_types.some =>
                         ConcreteNames(aid.applies_to.principal_apply_spec)
                           = {QualifiedName(t, p[2]) : t \in written.principal_types.val}
                   /\ written.resource_types.some =>
                         ConcreteNames(aid.applies_to.resource_apply_spec)
                           = {QualifiedName(t, p[2]) : t \in written.resource_types.val}

\* A schema was returned for Foo::A declared with the parents A and Foo::B
\* and the root A declared as well: Foo::A descends from Foo::B and from
\* itself (the parent written A), not from the root A.
C20_Witness ==
    /\ Succeeded
    /\ Len(fragments) = 2
    /\ DOMAIN fragments[1] = {Root, Foo}
    /\ <<"A">> \in DOMAIN fragments[1][Root].entity_types
    /\ <<"A">> \in DOMAIN fragments[1][Foo].entity_types
    /\ fragments[1][Foo].entity_types[<<"A">>].member_of_types = {<<"A">>, <<"Foo", "B">>}
    /\ Name("A", Foo) \in result.schema.entity_types[Name("B", Foo)].descendants
    /\ Name("A", Foo) \in result.schema.entity_types[Name("A", Foo)].descendants
    /\ Name("A", Foo) \notin result.schema.entity_types[Name("A", Root)].descendants

\* The action a memberOf reference written in the namespace ns denotes.
ParentWritten(ref, ns) ==
    IF ref.ty.some
    THEN [ty |-> [path |-> SubSeq(ref.ty.val, 1, Len(ref.ty.val) - 1),
                  id |-> ref.ty.val[Len(ref.ty.val)]],
          eid |-> ref.id]
    ELSE [ty |-> [path |-> ns, id |-> "Action"], eid |-> ref.id]

\* The memberOf references of an action declaration.
ParentsOf(a) == IF a.member_of.some THEN a.member_of.val ELSE {}

EntityDeclarationOf(str) ==
    CHOOSE x \in Declarations \X UNION {DOMAIN DefOf(q).entity_types : q \in Declarations} :
        x[2] \in DOMAIN DefOf(x[1]).entity_types /\ x[1][2] \o x[2] = str

ActionDeclarationOf(str) ==
    CHOOSE x \in Declarations \X UNION {DOMAIN DefOf(q).actions : q \in Declarations} :
        x[2] \in DOMAIN DefOf(x[1]).actions
        /\ Append(Append(x[1][2], "Action"), x[2]) = str

\* The EntityUID an action id string stands for.
EuidOf(str) ==
    [ty |-> [path |-> SubSeq(str, 1, Len(str) - 2), id |-> str[Len(str) - 1]],
     eid |-> str[Len(str)]]

\* The schema the input describes, read off the fragments as written:
\* every declaration under its qualified name, with the declarations
\* reaching it through membership as descendants.
SchemaWritten ==
    [entity_types |->
        [n \in {NameOf(e) : e \in DeclaredEntityTypes} |->
            LET x == EntityDeclarationOf(NameToString(n)) IN
            [name |-> n,
             descendants |-> {NameOf(c[1]) : c \in {e \in Chains(MemberOfTypesEdges) :
                                                      e[2] = NameToString(n)}},
             attributes |->
                 TypeWritten(DefOf(x[1]).entity_types[x[2]].shape, x[1][2]).attrs]],
     action_ids |->
        [n \in {EuidOf(a) : a \in DeclaredActions} |->
            LET x == ActionDeclarationOf(EuidToString(n))
                written == AppliesToOf(DefOf(x[1]).actions[x[2]])
                attributes == DefOf(x[1]).actions[x[2]].attributes IN
            [name |-> n,
             applies_to |->
                 ValidatorApplySpec(AppliesToWritten(written.principal_types, x[1][2]),
                                    AppliesToWritten(written.resource_types, x[1][2])),
             descendants |-> {EuidOf(c[1]) : c \in {e \in Chains(MemberOfEdges) :
                                                      e[2] = EuidToString(n)}},
             context |-> TypeWritten(written.context, x[1][2]).attrs,
             attributes |->
                 IF attributes.some
                 THEN convert_attr_jsonval_map_to_attributes(attributes.val).val
                 ELSE EmptyMap]]]

\* The input has no defect: every fragment converts, nothing is declared
\* twice, every shape and context resolves to a record, the actions have
\* no cycle and everything referred to is declared.
CompilesOk ==
    /\ \A i \in 1..Len(fragments) :
          from_schema_fragment(fragments[i], action_behavior).ok
    /\ DuplicateAliases \cup DuplicateEntityTypes \cup DuplicateActions = {}
    /\ \A s \in InputShapes \cup InputContexts :
          AliasesDeclared(s[2], s[1]) /\ ~NotRecord(s)
    /\ ~ActionCycleInInput
    /\ UndeclaredEntityTypesInInput = {}
    /\ UndeclaredActionsInInput = {}

\* C22: the outcome of a compilation is determined by the fragments and the
\* ActionBehavior: whichever order the maps are iterated in, it succeeds
\* when the input has no defect and fails when it has one, and the schema
\* returned is the one the input describes (the same keys, descendants,
\* attributes, contexts and applies_to).
C22_Deterministic ==
    /\ Failed => ~CompilesOk
    /\ Succeeded => CompilesOk /\ result.schema = SchemaWritten

\* A schema was returned for a fragment of two namespaces, whose
\* definitions are merged in either order, each declaring an entity type
\* and an action.
C22_Witness ==
    /\ Succeeded
    /\ DOMAIN fragments[1] = {Root, Foo}
    /\ \A ns \in {Root, Foo} :
          /\ DOMAIN fragments[1][ns].entity_types # {}
          /\ DOMAIN fragments[1][ns].actions # {}
    /\ result.schema = SchemaWritten

\* The fragment whose only namespace is the empty string and whose
\* definition is def.
FragmentOf(def) == (<<>> :> def)

\* C23: a NamespaceDefinition compiled by itself has the outcome of the
\* fragment that holds it under the empty namespace string, compiled under
\* the default ActionBehavior: the conversion gives the same definition or
\* the same errors, the definitions handed to the merge are the same, and
\* the schema returned is the one the fragment describes.
C23_DefinitionAsFragment ==
    /\ Finished =>
          \A d \in InputDefs :
             /\ try_into(d[2])
                  = from_namespace_definition(Some(<<>>), d[2], DefaultActionBehavior)
             /\ Collect([n \in {<<>>} |-> try_into(d[2])])
                  = from_schema_fragment(FragmentOf(d[2]), DefaultActionBehavior)
    /\ entry = "definition" =>
          LET converted == from_schema_fragment(fragments[1], DefaultActionBehavior) IN
          /\ fragments = << FragmentOf(fragments[1][<<>>]) >>
          /\ (pc = "convert" /\ Failed) => ~converted.ok /\ result.err \in converted.errs
          /\ ConvertedAll => converted.ok
          /\ (pc = "merge" /\ ~Failed) => ns_defs = << converted.val[<<>>] >>
          /\ Failed => ~CompilesOk
          /\ Succeeded => result.schema = SchemaWritten

\* A NamespaceDefinition compiled by itself gave a schema in which the
\* action x descends from y and z, as the fragment holding it describes.
C23_Witness ==
    /\ entry = "definition"
    /\ Succeeded
    /\ result.schema = SchemaWritten
    /\ EntityUID(Name("Action", Root), "z") \in DOMAIN result.schema.action_ids
    /\ {EntityUID(Name("Action", Root), "x")}
         = result.schema.action_ids[EntityUID(Name("Action", Root), "z")].descendants
           \ {EntityUID(Name("Action", Root), "y")}
    /\ EntityUID(Name("Action", Root), "y")
         \in result.schema.action_ids[EntityUID(Name("Action", Root), "z")].descendants

\* A NamespaceDefinition compiled by itself was rejected at its conversion.
C23_WitnessRejected ==
    /\ entry = "definition"
    /\ pc = "convert"
    /\ result = Error(ActionEntityTypeDeclared)

\* The defects the typing of the value v reaches: an empty set, or a value
\* that is no boolean, long, string, record or set.  Of a set only the
\* first element is looked at.
RECURSIVE ValueDefects(_)
ValueDefects(v) ==
    CASE v.j \in {"Bool", "Long", "String"} -> {}
      [] v.j = "Record" -> UNION {ValueDefects(v.fields[k]) : k \in DOMAIN v.fields}
      [] v.j = "Set" ->
            IF v.elems = <<>> THEN {"ActionEntityAttributeEmptySet"}
            ELSE ValueDefects(Head(v.elems))
      [] OTHER -> {"ActionEntityAttributeUnsupportedType"}

\* The Type of a value without defects.
RECURSIVE TypeOfValue(_)
TypeOfValue(v) ==
    CASE v.j = "Bool" -> [tag |-> "Bool"]
      [] v.j = "Long" -> [tag |-> "Long"]
      [] v.j = "String" -> [tag |-> "String"]
      [] v.j = "Record" ->
            [tag |-> "Record",
             attrs |-> [k \in DOMAIN v.fields |->
                          [attr_type |-> TypeOfValue(v.fields[k]), is_required |-> TRUE]]]
      [] v.j = "Set" -> [tag |-> "Set", elem |-> TypeOfValue(Head(v.elems))]

\* The attribute values of an action declaration: none without the field.
ValuesOf(a) == IF a.attributes.some THEN a.attributes.val ELSE EmptyMap

AttributeDefects(a) == UNION {ValueDefects(ValuesOf(a)[k]) : k \in DOMAIN ValuesOf(a)}

AttributesTyped(a) ==
    [k \in DOMAIN ValuesOf(a) |->
       [attr_type |-> TypeOfValue(ValuesOf(a)[k]), is_required |-> TRUE]]

\* C24: under PermitAttributes the attribute values of an action are typed
\* by structural recursion (Bool, Long, String, Record with every field
\* required, Set of the type of the first element); an empty set or a value
\* of another kind that the recursion reaches fails the conversion with
\* ActionEntityAttributeEmptySet or ActionEntityAttributeUnsupportedType.
\* An action without an attributes field has no attributes.
C24_AttributeValuesTyped ==
    /\ Finished =>
          \A a \in InputActions :
             LET r == convert_attr_jsonval_map_to_attributes(ValuesOf(a[2])) IN
             IF AttributeDefects(a[2]) = {}
             THEN r = Ok(AttributesTyped(a[2]))
             ELSE ~r.ok /\ {e.kind : e \in r.errs} = AttributeDefects(a[2])
    /\ action_behavior = "PermitAttributes" =>
          /\ (\E a \in InputActions : AttributeDefects(a[2]) # {}) =>
                /\ pc = "convert"
                /\ (Failed /\ \A d \in InputDefs :
                                 WellFormedNamespace(d[1]) /\ ~DeclaresActionType(d[2])
                                 /\ BuiltinAliases(d[2]) = {} /\ AliasBodyRefs(d[2]) = {}
                                 /\ \A k \in DOMAIN d[2].entity_types : k[1] # "") =>
                      result.err.kind \in
                         UNION {AttributeDefects(a[2]) : a \in InputActions}
          /\ Succeeded =>
                \A p \in Declarations :
                   \A a \in DOMAIN DefOf(p).actions :
                      result.schema.action_ids[EntityUID(Name("Action", p[2]), a)].attributes
                        = AttributesTyped(DefOf(p).actions[a])

\* A schema was returned under PermitAttributes in which the attribute k of
\* x is a record with the required field f, a set of longs typed from the
\* first element of a set whose second element is an empty set, and y,
\* without an attributes field, has no attributes.
C24_Witness ==
    /\ Succeeded
    /\ action_behavior = "PermitAttributes"
    /\ DOMAIN fragments[1] = {Root}
    /\ DOMAIN fragments[1][Root].actions = {"x", "y"}
    /\ fragments[1][Root].actions["x"].attributes
         = Some("k" :> JsonRecord("f" :> JsonSet(<<[j |-> "Long"], JsonSet(<<>>)>>)))
    /\ ~fragments[1][Root].actions["y"].attributes.some
    /\ result.schema.action_ids[EntityUID(Name("Action", Root), "x")].attributes["k"]
         = AttributeType([tag |-> "Record",
                          attrs |-> ("f" :> AttributeType(
                                        [tag |-> "Set", elem |-> [tag |-> "Long"]],
                                        TRUE))], TRUE)
    /\ result.schema.action_ids[EntityUID(Name("Action", Root), "y")].attributes = EmptyMap

\* The conversion failed with ActionEntityAttributeEmptySet for an empty
\* set inside a record inside a set.
C24_WitnessEmptySet ==
    /\ pc = "convert"
    /\ result = Error(Err("ActionEntityAttributeEmptySet", {}))
    /\ \E a \in InputActions :
          /\ a[2].attributes.some
          /\ "k" \in DOMAIN a[2].attributes.val
          /\ a[2].attributes.val["k"] = JsonSet(<<JsonRecord("f" :> JsonSet(<<>>))>>)

(***************************************************************************)
(* Queries on a ValidatorSchema (cedar_policy_core::entities::Schema).     *)
(***************************************************************************)
get_entity_type(schema, entity_type_id) ==
    IF entity_type_id \in DOMAIN schema.entity_types
    THEN Some(schema.entity_types[entity_type_id]) ELSE None

\* ValidatorEntityType::attr
attr(entity_type, name) ==
    IF name \in DOMAIN entity_type.attributes
    THEN Some(entity_type.attributes[name]) ELSE None

\* TryFrom<Type> for the core SchemaType: an entity type of one name becomes
\* Entity of that name; a Type without a core counterpart does not convert.
RECURSIVE core_schema_type(_)
core_schema_type(ty) ==
    CASE ty.tag \in {"Bool", "Long", "String"} -> Ok([core |-> ty.tag])
      [] ty.tag = "Set" ->
            LET e == core_schema_type(ty.elem) IN
            IF e.ok THEN Ok([core |-> "Set", element_ty |-> e.val]) ELSE e
      [] ty.tag = "Record" ->
            LET as == [a \in DOMAIN ty.attrs |-> core_schema_type(ty.attrs[a].attr_type)] IN
            IF \A a \in DOMAIN as : as[a].ok
            THEN Ok([core |-> "Record",
                     attrs |-> [a \in DOMAIN as |->
                                  [attr_type |-> as[a].val,
                                   required |-> ty.attrs[a].is_required]]])
            ELSE Fail({"conversion"})
      [] ty.tag = "Entity" ->
            IF Cardinality(ty.lub) = 1
            THEN Ok([core |-> "Entity", ty |-> CHOOSE n \in ty.lub : TRUE])
            ELSE Fail({"conversion"})
      [] ty.tag = "Extension" -> Ok([core |-> "Extension", name |-> ty.name])
      [] OTHER -> Fail({"conversion"})

\* The call panicked (expect on a failed conversion).
Panic == [some |-> FALSE, panic |-> TRUE]

attr_type(schema, entity_type, name) ==
    IF entity_type.kind = "Unspecified" THEN None
    ELSE LET et == get_entity_type(schema, entity_type.name) IN
         IF ~et.some THEN None
         ELSE IF ~attr(et.val, name).some THEN None
         ELSE LET core_schema_type_of == core_schema_type(attr(et.val, name).val.attr_type)
              IN  IF core_schema_type_of.ok THEN Some(core_schema_type_of.val) ELSE Panic

\* required_attrs that yields every attribute, required or not.
required_attrs_All(schema, entity_type) ==
    IF entity_type.kind = "Unspecified" THEN {}
    ELSE LET et == get_entity_type(schema, entity_type.name) IN
         IF ~et.some THEN {} ELSE DOMAIN et.val.attributes

\* The attribute names the iterator yields, as a set.
required_attrs(schema, entity_type) ==
    IF entity_type.kind = "Unspecified" THEN {}
    ELSE LET et == get_entity_type(schema, entity_type.name) IN
         IF ~et.some THEN {}
         ELSE {a \in DOMAIN et.val.attributes : et.val.attributes[a].is_required}

\* Attribute names and entity types to query: those of the inputs, and
\* some that no input declares.
QueriedAttributes == {"f", "g", "h", "k", "zz"}

QueriedEntityTypes ==
    {Unspecified}
    \cup {Concrete(NameOf(e)) : e \in DeclaredEntityTypes}
    \cup {Concrete(Name("Zed", Root)), Concrete(Name("Action", Foo)),
          Concrete(Name("U", <<"Bar">>))}

\* C25: on a schema returned successfully, required_attrs of an entity type
\* yields exactly the attributes for which attr_type gives a type and the
\* required flag is set, which are the attributes its shape declares
\* required; for Unspecified and for a type the schema does not hold,
\* attr_type gives None for every attribute and required_attrs nothing.
C25_RequiredAttrs ==
    Succeeded =>
        /\ \A E \in QueriedEntityTypes :
              /\ \A a \in QueriedAttributes : attr_type(result.schema, E, a) # Panic
              /\ IF E = Unspecified \/ E.name \notin DOMAIN result.schema.entity_types
                 THEN /\ \A a \in QueriedAttributes : attr_type(result.schema, E, a) = None
                      /\ required_attrs(result.schema, E) = {}
                 ELSE /\ required_attrs(result.schema, E) \subseteq QueriedAttributes
                      /\ required_attrs(result.schema, E)
                           = {a \in QueriedAttributes :
                                /\ attr_type(result.schema, E, a).some
                                /\ result.schema.entity_types[E.name].attributes[a].is_required}
        /\ \A p \in Declarations :
              \A k \in DOMAIN DefOf(p).entity_types :
                 LET written == TypeWritten(DefOf(p).entity_types[k].shape, p[2]).attrs IN
                 /\ required_attrs(result.schema, Concrete(NameOf(p[2] \o k)))
                      = {a \in DOMAIN written : written[a].is_required}
                 /\ \A a \in QueriedAttributes :
                       attr_type(result.schema, Concrete(NameOf(p[2] \o k)), a).some
                         <=> a \in DOMAIN written

\* A schema was returned in which Foo::A has the optional attribute f and
\* the required attribute h: required_attrs yields h alone, attr_type gives
\* a type for both.
C25_Witness ==
    /\ Succeeded
    /\ Name("A", Foo) \in DOMAIN result.schema.entity_types
    /\ DOMAIN result.schema.entity_types[Name("A", Foo)].attributes = {"f", "h"}
    /\ required_attrs(result.schema, Concrete(Name("A", Foo))) = {"h"}
    /\ attr_type(result.schema, Concrete(Name("A", Foo)), "f").some
    /\ attr_type(result.schema, Concrete(Name("A", Foo)), "h").some
    /\ attr_type(result.schema, Concrete(Name("A", Root)), "h") = None
    /\ required_attrs(result.schema, Unspecified) = {}

UndeclaredInInput == UndeclaredEntityTypesInInput # {} \/ UndeclaredActionsInInput # {}

\* C26: the closure of the hierarchies comes before the consistency check:
\* when the declared actions have a cycle and the input also refers to an
\* undeclared entity type or action, a compilation that gets to the
\* closure stops there with CycleInActionHierarchy, and no compilation of
\* such an input fails with UndeclaredEntityTypes or UndeclaredActions.
C26_ClosureBeforeCheck ==
    ((Failed \/ ReachedCheck) /\ ActionCycleInInput /\ UndeclaredInInput) =>
        /\ pc \notin {"check", "done"}
        /\ (ReachedClosure /\ Failed) =>
              pc = "tc_action_ids" /\ result = CycleInActionHierarchy
        /\ Failed =>
              result.err.kind \notin {"UndeclaredEntityTypes", "UndeclaredActions"}

\* The compilation failed with CycleInActionHierarchy on an input in which
\* x and y are members of each other, x is also a member of the undeclared
\* z and applies to the undeclared C, and A has the undeclared parent B.
C26_Witness ==
    /\ pc = "tc_action_ids"
    /\ result = CycleInActionHierarchy
    /\ <<"Action", "z">> \in UndeclaredActionsInInput
    /\ {<<"B">>, <<"C">>} \subseteq UndeclaredEntityTypesInInput
    /\ <<<<"Action", "x">>, <<"Action", "x">>>> \in Chains(MemberOfEdges)
    /\ <<<<"Action", "x">>, <<"Action", "x">>>> \notin MemberOfEdges

\* A schema type written as an open record, or holding one.
RECURSIVE HoldsOpenRecord(_)
HoldsOpenRecord(ty) ==
    CASE ty.type = "Record" ->
            \/ ty.additionalAttributes
            \/ \E a \in DOMAIN ty.attributes : HoldsOpenRecord(ty.attributes[a].ty)
      [] ty.type = "Set" -> HoldsOpenRecord(ty.element)
      [] OTHER -> FALSE

\* The definition holds something its conversion rejects: a builtin-named
\* alias, an alias referring to another alias, an ill-formed entity type
\* name, an open record, an empty set as an action attribute.
ConversionDefect(def) ==
    \/ BuiltinAliases(def) # {}
    \/ AliasBodyRefs(def) # {}
    \/ \E k \in DOMAIN def.entity_types :
          k[1] = "" \/ HoldsOpenRecord(def.entity_types[k].shape)
    \/ \E a \in DOMAIN def.actions :
          \/ HoldsOpenRecord(AppliesToOf(def.actions[a]).context)
          \/ "ActionEntityAttributeEmptySet" \in AttributeDefects(def.actions[a])

\* One of the conversions of def under the namespace ns fails.
ConversionFails(ns, def) ==
    \/ ~build_type_defs(def.common_types, ns).ok
    \/ ~build_action_ids(def.actions, ns).ok
    \/ ~build_entity_types(def.entity_types, ns).ok

\* The error of the action behavior check on def under the behavior b, if
\* it fails: an entity type named Action first, then attributes.
BehaviorError(def, b) ==
    IF DeclaresActionType(def) THEN {ActionEntityTypeDeclared}
    ELSE IF b = "ProhibitAttributes" /\ WithAttributes(def) # {}
    THEN {ActionEntityAttributes(def)}
    ELSE {}

\* C27: under a well-formed namespace, a definition that fails the action
\* behavior check and also holds something its conversion rejects is
\* rejected with the error of the check: ActionEntityTypeDeclared when an
\* entity type is named Action, else ActionEntityAttributes.
C27_BehaviorCheckFirst ==
    \A p \in Declarations :
        (WellFormedNamespace(p[2]) /\ ConversionDefect(DefOf(p))) =>
            /\ Finished =>
                  /\ ConversionFails(p[2], DefOf(p))
                  /\ \A b \in {"ProhibitAttributes", "PermitAttributes"} :
                        BehaviorError(DefOf(p), b) # {} =>
                           from_namespace_definition(Some(p[2]), DefOf(p), b)
                             = Fail(BehaviorError(DefOf(p), b))
            /\ (/\ BehaviorError(DefOf(p), action_behavior) # {}
                /\ entry = "fragments"
                /\ DOMAIN fragments[p[1]] = {p[2]}) =>
                   /\ pc = "convert" /\ next_fragment <= p[1]
                   /\ (Failed /\ next_fragment = p[1]) =>
                         result.err \in BehaviorError(DefOf(p), action_behavior)

\* The conversion failed with ActionEntityTypeDeclared under
\* ProhibitAttributes for a definition that names an entity type Action,
\* gives another an ill-formed name, has a builtin-named alias and gives x
\* an empty set for an attribute.
C27_Witness ==
    /\ pc = "convert"
    /\ result = Error(ActionEntityTypeDeclared)
    /\ action_behavior = "ProhibitAttributes"
    /\ \E d \in InputDefs :
          /\ DOMAIN d[2].entity_types = {<<"Action">>, <<"">>}
          /\ BuiltinAliases(d[2]) # {}
          /\ "x" \in DOMAIN d[2].actions
          /\ d[2].actions["x"].attributes = Some("k" :> JsonSet(<<>>))

\* The conversion failed with ActionEntityAttributes for a definition with
\* an open record and an alias referring to another alias.
C27_WitnessAttributes ==
    /\ pc = "convert"
    /\ Failed
    /\ result.err.kind = "ActionEntityAttributes"
    /\ \E d \in InputDefs :
          /\ AliasBodyRefs(d[2]) # {}
          /\ \E k \in DOMAIN d[2].entity_types : HoldsOpenRecord(d[2].entity_types[k].shape)

\* The fragments in the order o.
Permuted(o) == [i \in 1..Len(fragments) |-> fragments[o[i]]]

\* What a compilation gave, whichever error it failed with.
Outcome(r) == IF r.ok THEN r ELSE Fail({})

OutcomesOf(frags) ==
    {Outcome(from_schema_fragments(frags, action_behavior, os)) :
       os \in IterationOrders(frags)}

\* C28: the result of from_schema_fragments does not depend on the order
\* of the fragments: when the compilation of the fragments has succeeded
\* with a schema, so does their compilation in every other order, with an
\* equal schema; when it has failed, it fails in every other order.
C28_FragmentOrderIrrelevant ==
    (Finished /\ entry = "fragments") =>
        \A o \in Orders(1..Len(fragments)) :
            OutcomesOf(Permuted(o))
              = {IF Succeeded THEN Ok(result.schema) ELSE Fail({})}

\* A schema was returned for two fragments in which the first declares the
\* root A and the second declares Foo::B, both children of Foo::A.
C28_Witness ==
    /\ Succeeded
    /\ entry = "fragments"
    /\ Len(fragments) = 2
    /\ Root \in DOMAIN fragments[1]
    /\ Foo \in DOMAIN fragments[2]
    /\ <<"A">> \in DOMAIN fragments[1][Root].entity_types
    /\ <<"B">> \in DOMAIN fragments[2][Foo].entity_types
    /\ Name("A", Foo) \in DOMAIN result.schema.entity_types
    /\ {Name("A", Root), Name("B", Foo)}
          \subseteq result.schema.entity_types[Name("A", Foo)].descendants

\* The compilation of two fragments or more failed at the merge.
C28_WitnessFailed ==
    /\ MergeFailed
    /\ entry = "fragments"
    /\ Len(fragments) >= 2

\* The parents written with an explicit type whose base name is not Action,
\* as action id strings.
ForeignParents ==
    {Append(r.ty.val, r.id) : r \in
        {q \in UNION {ParentsOf(a[2]) : a \in InputActions} :
           q.ty.some /\ q.ty.val[Len(q.ty.val)] # "Action"}}

\* Nothing in the input makes the compilation fail before undeclared
\* actions are looked for.
SoundBeforeActions ==
    /\ \A i \in 1..Len(fragments) :
          from_schema_fragment(fragments[i], action_behavior).ok
    /\ DuplicateAliases \cup DuplicateEntityTypes \cup DuplicateActions = {}
    /\ \A s \in InputShapes \cup InputContexts :
          AliasesDeclared(s[2], s[1]) /\ ~NotRecord(s)
    /\ ~ActionCycleInInput
    /\ UndeclaredEntityTypesInInput = {}

C29_WitnessKeys ==
    /\ Succeeded
    /\ \E k, l \in DOMAIN result.schema.action_ids : k.ty.path = Root /\ l.ty.path = Foo
    /\ DOMAIN result.schema.entity_types # {}

\* The namespace an alias reference r written in ns is looked up in: the one
\* it names, or ns when it names none.
LookupNamespace(r, ns) == IF Len(r) = 1 THEN ns ELSE SubSeq(r, 1, Len(r) - 1)

\* The definitions that declare the alias a reference r written in ns is
\* looked up as.
AliasDeclarations(r, ns) ==
    {x \in InputDefs : /\ x[1] = LookupNamespace(r, ns)
                       /\ <<r[Len(r)]>> \in DOMAIN x[2].common_types}

\* The definitions of other namespaces that declare an alias of the base
\* name of r.
AliasNamesakes(r, ns) ==
    {x \in InputDefs : /\ x[1] # LookupNamespace(r, ns)
                       /\ <<r[Len(r)]>> \in DOMAIN x[2].common_types}

\* The alias references of a shape written in ns that nothing declares.
UndeclaredRefs(shape, ns) == {r \in AliasRefs(shape) : AliasDeclarations(r, ns) = {}}

\* The entity types of the input, each with its definition and its key.
InputEntityTypes ==
    {p \in InputDefs \X UNION {DOMAIN x[2].entity_types : x \in InputDefs} :
       p[2] \in DOMAIN p[1][2].entity_types}

\* C30: the entity type names inside the body of an alias are qualified by
\* the namespace that declares the alias, whichever namespace refers to it;
\* an alias reference is qualified by the namespace it is written in, so a
\* reference without a namespace is looked up only in its own namespace:
\* when that namespace does not declare the alias, the compilation fails
\* with UndeclaredCommonType, whichever other namespace declares an alias of
\* that name.
C30_AliasNamespaces ==
    \A e \in InputEntityTypes :
        LET ns == e[1][1]
            shape == e[1][2].entity_types[e[2]].shape
        IN  /\ Succeeded =>
                  \A a \in DOMAIN WrittenAttributes(shape) :
                     shape.attributes[a].ty.type = "TypeDef" =>
                        \A x \in AliasDeclarations(shape.attributes[a].ty.type_name, ns) :
                           EntityNamesIn(result.schema.entity_types[NameOf(ns \o e[2])]
                                            .attributes[a].attr_type)
                             = {NameOf(Qualified(n, x[1])) :
                                  n \in EntityRefsWritten(
                                           x[2].common_types[
                                              <<shape.attributes[a].ty.type_name[
                                                  Len(shape.attributes[a].ty.type_name)]>>])}
            /\ UndeclaredRefs(shape, ns) # {} =>
                  /\ ~Succeeded
                  /\ (/\ Failed
                      /\ \A i \in 1..Len(fragments) :
                            from_schema_fragment(fragments[i], action_behavior).ok
                      /\ DuplicateAliases \cup DuplicateEntityTypes \cup DuplicateActions = {}
                      /\ \A s \in InputShapes \ {<<ns, shape>>} :
                            AliasesDeclared(s[2], s[1]) /\ ~NotRecord(s)) =>
                         /\ pc = "entity_types"
                         /\ result.err \in {Err("UndeclaredCommonType", {r}) :
                                               r \in UndeclaredRefs(shape, ns)}

\* A schema was returned in which the attribute f of Foo::A, written as a
\* reference to Bar::T, whose body refers to A, is a set of Bar::A, while
\* Foo and the root namespace declare an entity type A as well.
C30_Witness ==
    /\ Succeeded
    /\ Len(fragments) = 2
    /\ DOMAIN fragments[1] = {Foo, <<"Bar">>}
    /\ DOMAIN fragments[2] = {Root}
    /\ fragments[1][<<"Bar">>].common_types = (<<"T">> :> SetOf(EntityRef(<<"A">>)))
    /\ <<"A">> \in DOMAIN fragments[1][Foo].entity_types
    /\ fragments[1][Foo].entity_types[<<"A">>].shape = RecF(TypeRef(<<"Bar", "T">>))
    /\ <<"A">> \in DOMAIN fragments[2][Root].entity_types
    /\ result.schema.entity_types[Name("A", Foo)].attributes["f"].attr_type
         = [tag |-> "Set", elem |-> [tag |-> "Entity", lub |-> {Name("A", <<"Bar">>)}]]

\* The compilation failed with UndeclaredCommonType naming T, to which Foo
\* refers without a namespace, while Bar and the root namespace declare an
\* alias T and Foo declares none.
C30_WitnessUndeclared ==
    /\ pc = "entity_types"
    /\ result = Error(Err("UndeclaredCommonType", {<<"T">>}))
    /\ \E e \in InputEntityTypes :
          /\ e[1][1] = Foo
          /\ <<"T">> \in UndeclaredRefs(e[1][2].entity_types[e[2]].shape, Foo)
          /\ {x[1] : x \in AliasNamesakes(<<"T">>, Foo)} = {Root, <<"Bar">>}

====
